---------------------------- MODULE Spec2Model ----------------------------
(***************************************************************************)
(* Model of the email-subscription core of gdghacks-soon: the rate limiter *)
(* (src/src/lib/rateLimiter.ts), the subscription manager                  *)
(* (src/src/lib/emailSubscription.ts), the email validator                 *)
(* (src/src/lib/emailValidator.ts), the spam detector                      *)
(* (src/unnamed/part_000) and the subscribe endpoint (src/unnamed/part_003)*)
(*                                                                         *)
(* Strings are sequences of one-character strings, so that toLowerCase,    *)
(* trim, split and the regular expressions of the source act on them.      *)
(* Times are milliseconds since the epoch of the run, as Date.now().       *)
(***************************************************************************)
EXTENDS Integers, Sequences, FiniteSets, TLC

VARIABLES
    now,            \* Date.now(), in ms
    ticks,          \* how many times the clock has advanced
    ipLimits,       \* rateLimits/byIP/limits/{hash}    : hash -> document
    emailLimits,    \* rateLimits/byEmail/limits/{hash} : hash -> document
    globalLimit,    \* rateLimits/global/stats/hourly   : document
    subscriptions,  \* subscriptions/{emailHash}        : hash -> document
    metrics,        \* subscriptionMetrics/{YYYY-MM-DD} : day -> document
    abuseLog,       \* abuseLog/{auto-id}               : sequence of entries
    op,             \* the last operation performed and its arguments
    rlResult,       \* the RateLimitResult the last rate-limit check returned
    subResult,      \* what the last subscribeEmail / unsubscribeEmail returned
    response,       \* the HTTP response of the last request to an endpoint
    stages,         \* the stages the last request to the subscribe endpoint entered
    reads,          \* the document each rate-limit check in flight got from getDoc
    grants,         \* history: how many checks of each key were allowed so far
    resubscribed,   \* history: how often each record went from unsubscribed to
                    \* subscribed
    verdict         \* what the last call of detectSpam or validateEmail returned

rlVars == <<ipLimits, emailLimits, globalLimit, rlResult>>
subVars == <<subscriptions, subResult>>
appVars == <<subscriptions, metrics, abuseLog, subResult, response, stages>>
auxVars == <<reads, grants, resubscribed, verdict>>
vars == <<now, ticks, ipLimits, emailLimits, globalLimit, subscriptions, metrics,
          abuseLog, op, rlResult, subResult, response, stages, reads, grants,
          resubscribed, verdict>>

---------------------------------------------------------------------------
(* Bounds of the model *)

\* the clock advances at most this many times in a run
MaxTicks == 4

\* the clock of the composite checks advances at most this many times
MaxLongTicks == 1

\* a subscription record is followed up to this subscriptionCount
MaxSubscriptionCount == 3

\* the abuse log is followed up to this many entries
MaxAbuseLog == 1

\* a day of attempts is followed over this many windows after the first
MaxHours == 3

\* how far below the hourly ceiling the global counter of a running system
\* starts, and how far a fresh global window is followed
GlobalHeadroom == 2

---------------------------------------------------------------------------
(* Values *)

\* null / undefined of the source
Null == -1

\* a document that does not exist: getDoc(ref).exists() is false
NoDoc == [exists |-> FALSE]

\* the steps by which the clock advances: 1 ms, half an hour, one hour
TimeSteps == {1, 30 * 60 * 1000, 60 * 60 * 1000}

---------------------------------------------------------------------------
(* Strings *)

UpperChars == <<"A", "B", "C", "D", "E", "F", "G", "H", "I", "J", "K", "L", "M",
                "N", "O", "P", "Q", "R", "S", "T", "U", "V", "W", "X", "Y", "Z">>
LowerChars == <<"a", "b", "c", "d", "e", "f", "g", "h", "i", "j", "k", "l", "m",
                "n", "o", "p", "q", "r", "s", "t", "u", "v", "w", "x", "y", "z">>

\* the lower-case letter of each upper-case letter
LowerOf == [c \in {UpperChars[i] : i \in 1..26} |->
               LowerChars[CHOOSE i \in 1..26 : UpperChars[i] = c]]

LowerChar(c) == IF c \in DOMAIN LowerOf THEN LowerOf[c] ELSE c

\* String.prototype.toLowerCase
toLowerCase(s) == [i \in 1..Len(s) |-> LowerChar(s[i])]

\* sha256Hash: a one-way digest, equal exactly on equal inputs
sha256Hash(s) == <<"sha256", s>>

\* a string-valued field that is null
NullStr == <<"null">>

\* the index of the first c in s, or 0
IndexOf(s, c) ==
    IF \E i \in 1..Len(s) : s[i] = c
    THEN CHOOSE i \in 1..Len(s) : s[i] = c /\ \A j \in 1..(i - 1) : s[j] # c
    ELSE 0

\* String.prototype.split(c), c one character
RECURSIVE split(_, _)
split(s, c) ==
    LET i == IndexOf(s, c)
    IN  IF i = 0 THEN <<s>>
        ELSE <<SubSeq(s, 1, i - 1)>> \o split(SubSeq(s, i + 1, Len(s)), c)

Digits == {"0", "1", "2", "3", "4", "5", "6", "7", "8", "9"}
LowerLetters == {LowerChars[i] : i \in 1..26}
UpperLetters == {UpperChars[i] : i \in 1..26}
AlphaNum == LowerLetters \cup UpperLetters \cup Digits

\* \w of a regular expression
WordChars == AlphaNum \cup {"_"}

\* the white space String.prototype.trim removes
Whitespace == {" ", "\t", "\n", "\r"}

MinOf(S) == CHOOSE x \in S : \A y \in S : x <= y
MaxOf(S) == CHOOSE x \in S : \A y \in S : x >= y

\* String.prototype.trim
trim(s) ==
    LET kept == {i \in 1..Len(s) : s[i] \notin Whitespace}
    IN  IF kept = {} THEN <<>> ELSE SubSeq(s, MinOf(kept), MaxOf(kept))

\* String.prototype.startsWith, and a pattern anchored with ^
startsWith(s, p) == Len(s) >= Len(p) /\ SubSeq(s, 1, Len(p)) = p

\* a pattern anchored with $
endsWith(s, p) == Len(s) >= Len(p) /\ SubSeq(s, Len(s) - Len(p) + 1, Len(s)) = p

\* String.prototype.includes, and an unanchored literal pattern
includes(s, p) ==
    \E i \in 1..(Len(s) - Len(p) + 1) : SubSeq(s, i, i + Len(p) - 1) = p

\* how many places of s the literal p occurs at
Occurrences(s, p) ==
    Cardinality({i \in 1..(Len(s) - Len(p) + 1) : SubSeq(s, i, i + Len(p) - 1) = p})

\* the pattern \bp\b: p between word boundaries
includesWord(s, p) ==
    \E i \in 1..(Len(s) - Len(p) + 1) :
        /\ SubSeq(s, i, i + Len(p) - 1) = p
        /\ (i = 1 \/ s[i - 1] \notin WordChars)
        /\ (i + Len(p) > Len(s) \/ s[i + Len(p)] \notin WordChars)


IpA == <<"8", ".", "8", ".", "4", ".", "4">>
IpB == <<"1", "0", ".", "0", ".", "0", ".", "7">>
IPs == {IpA, IpB}

EmailA == <<"j", "o", "@", "g", "d", "g", ".", "d", "e", "v">>
EmailAUpper == <<"J", "o", "@", "G", "D", "G", ".", "d", "e", "v">>
EmailB == <<"a", "m", "y", "@", "u", "o", "g", ".", "c", "a">>
Emails == {EmailA, EmailAUpper, EmailB}
\* EmailA between the blanks a visitor typed around it
EmailUntrimmed == <<" ", " ">> \o EmailA \o <<" ">>

IPKeys == {sha256Hash(ip) : ip \in IPs}
EmailKeys == {sha256Hash(e) : e \in Emails \cup {EmailUntrimmed}}

---------------------------------------------------------------------------
(* Rate limiter: src/src/lib/rateLimiter.ts *)

PerIPHourly == 3
PerIPDaily == 10
PerEmailHourly == 2
PerEmailDaily == 5
GlobalHourly == 500
GlobalDaily == 5000
BlockDuration == 3600
GlobalRetryAfter == 300
ManualBlockCount == 999

HourMs == 60 * 60 * 1000
DayMs == 24 * 60 * 60 * 1000

\* Math.floor in the place of Math.ceil
FloorDiv(a, b) == a \div b

\* Math.ceil(a / b) for a > 0, b > 0
CeilDiv(a, b) == (a + b - 1) \div b

\* Math.min of three numbers
Min3(a, b, c) ==
    IF a <= b /\ a <= c THEN a ELSE IF b <= c THEN b ELSE c

\* JavaScript's  x || 0  on a number or undefined
OrZero(x) == IF x = Null THEN 0 ELSE x

RateLimitData(count, windowStart, lastAttempt, blockedUntil, totalAttempts) ==
    [exists |-> TRUE, count |-> count, windowStart |-> windowStart,
     lastAttempt |-> lastAttempt, blockedUntil |-> blockedUntil,
     totalAttempts |-> totalAttempts]

Allowed(remaining) ==
    [allowed |-> TRUE, retryAfter |-> Null, remaining |-> remaining, reason |-> "none"]

Rejected(retryAfter, reason) ==
    [allowed |-> FALSE, retryAfter |-> retryAfter, remaining |-> Null, reason |-> reason]

\* existing.blockedUntil && existing.blockedUntil > now
IsBlocked(existing, t) ==
    /\ existing.blockedUntil # Null
    /\ existing.blockedUntil # 0
    /\ existing.blockedUntil > t

\* The outcome of one check of a keyed or global counter: the document the
\* check leaves in the store (doc), whether it called setDoc (wrote), and the
\* RateLimitResult it returns (res).
Outcome(doc, wrote, res) == [doc |-> doc, wrote |-> wrote, res |-> res]

\* the hourly test of checkIPRateLimit off by one: count >= hourly
IPInWindowOffByOne(existing, data, t) ==
    IF data.count >= PerIPHourly
    THEN Outcome([data EXCEPT !.blockedUntil = t + BlockDuration * 1000], TRUE,
                 Rejected(BlockDuration, "ip-hourly"))
    ELSE Outcome(data, TRUE, Allowed(PerIPHourly - data.count))

\* checkIPRateLimit, lines 92-128: data is existing with count incremented
IPInWindow(existing, data, t) ==
    IF data.count > PerIPHourly
    THEN Outcome([data EXCEPT !.blockedUntil = t + BlockDuration * 1000], TRUE,
                 Rejected(BlockDuration, "ip-hourly"))
    ELSE IF existing.windowStart > t - DayMs /\ data.count > PerIPDaily
    THEN Outcome([data EXCEPT !.blockedUntil = t + BlockDuration * 3 * 1000], TRUE,
                 Rejected(BlockDuration * 3, "ip-daily"))
    ELSE Outcome(data, TRUE, Allowed(PerIPHourly - data.count))

\* a checkIPRateLimit that records the attempts made during a block and
\* restarts the block at each of them
checkIPExtending(existing, t) ==
    IF existing.exists
    THEN IF IsBlocked(existing, t)
         THEN Outcome([existing EXCEPT !.lastAttempt = t, !.totalAttempts = @ + 1,
                                       !.blockedUntil = t + BlockDuration * 1000],
                      TRUE, Rejected(BlockDuration, "ip-blocked"))
         ELSE IF existing.windowStart < t - HourMs
         THEN Outcome(RateLimitData(1, t, t, Null, existing.totalAttempts + 1), TRUE,
                      Allowed(PerIPHourly - 1))
         ELSE IPInWindow(existing,
                         [existing EXCEPT !.count = @ + 1, !.lastAttempt = t,
                                          !.totalAttempts = @ + 1],
                         t)
    ELSE Outcome(RateLimitData(1, t, t, Null, 1), TRUE, Allowed(PerIPHourly - 1))

\* checkIPRateLimit on the document read (existing) at time t
checkIPRateLimit(existing, t) ==
    IF existing.exists
    THEN IF IsBlocked(existing, t)
         THEN Outcome(existing, FALSE,
                      Rejected(CeilDiv(existing.blockedUntil - t, 1000), "ip-blocked"))
         ELSE IF existing.windowStart < t - HourMs
         THEN Outcome(RateLimitData(1, t, t, Null, existing.totalAttempts + 1), TRUE,
                      Allowed(PerIPHourly - 1))
         ELSE IPInWindow(existing,
                         [existing EXCEPT !.count = @ + 1, !.lastAttempt = t,
                                          !.totalAttempts = @ + 1],
                         t)
    ELSE Outcome(RateLimitData(1, t, t, Null, 1), TRUE, Allowed(PerIPHourly - 1))

\* an email check whose window slides: every attempt restarts the window
checkEmailSliding(existing, t) ==
    IF existing.exists
    THEN IF IsBlocked(existing, t)
         THEN Outcome(existing, FALSE,
                      Rejected(CeilDiv(existing.blockedUntil - t, 1000), "email-blocked"))
         ELSE IF existing.windowStart < t - HourMs
         THEN Outcome(RateLimitData(1, t, t, Null, existing.totalAttempts + 1), TRUE,
                      Allowed(PerEmailHourly - 1))
         ELSE LET data == [existing EXCEPT !.count = @ + 1, !.lastAttempt = t,
                                           !.windowStart = t, !.totalAttempts = @ + 1]
              IN  IF data.count > PerEmailHourly
                  THEN Outcome([data EXCEPT !.blockedUntil = t + BlockDuration * 2 * 1000],
                               TRUE, Rejected(BlockDuration * 2, "email-hourly"))
                  ELSE Outcome(data, TRUE, Allowed(PerEmailHourly - data.count))
    ELSE Outcome(RateLimitData(1, t, t, Null, 1), TRUE, Allowed(PerEmailHourly - 1))

\* checkEmailRateLimit on the document read (existing) at time t
checkEmailRateLimit(existing, t) ==
    IF existing.exists
    THEN IF IsBlocked(existing, t)
         THEN Outcome(existing, FALSE,
                      Rejected(CeilDiv(existing.blockedUntil - t, 1000), "email-blocked"))
         ELSE IF existing.windowStart < t - HourMs
         THEN Outcome(RateLimitData(1, t, t, Null, existing.totalAttempts + 1), TRUE,
                      Allowed(PerEmailHourly - 1))
         ELSE LET data == [existing EXCEPT !.count = @ + 1, !.lastAttempt = t,
                                           !.totalAttempts = @ + 1]
              IN  IF data.count > PerEmailHourly
                  THEN Outcome([data EXCEPT !.blockedUntil = t + BlockDuration * 2 * 1000],
                               TRUE, Rejected(BlockDuration * 2, "email-hourly"))
                  ELSE Outcome(data, TRUE, Allowed(PerEmailHourly - data.count))
    ELSE Outcome(RateLimitData(1, t, t, Null, 1), TRUE, Allowed(PerEmailHourly - 1))

\* a global check that saves the counter before it rejects
checkGlobalPersisting(existing, t) ==
    IF existing.exists
    THEN IF existing.windowStart < t - HourMs
         THEN Outcome(RateLimitData(1, t, t, Null, existing.totalAttempts + 1), TRUE,
                      Allowed(GlobalHourly - 1))
         ELSE LET data == [existing EXCEPT !.count = @ + 1, !.lastAttempt = t,
                                           !.totalAttempts = @ + 1]
              IN  IF data.count > GlobalHourly
                  THEN Outcome(data, TRUE, Rejected(GlobalRetryAfter, "global-hourly"))
                  ELSE Outcome(data, TRUE, Allowed(GlobalHourly - data.count))
    ELSE Outcome(RateLimitData(1, t, t, Null, 1), TRUE, Allowed(GlobalHourly - 1))

\* checkGlobalRateLimit on the document read (existing) at time t
checkGlobalRateLimit(existing, t) ==
    IF existing.exists
    THEN IF existing.windowStart < t - HourMs
         THEN Outcome(RateLimitData(1, t, t, Null, existing.totalAttempts + 1), TRUE,
                      Allowed(GlobalHourly - 1))
         ELSE LET data == [existing EXCEPT !.count = @ + 1, !.lastAttempt = t,
                                           !.totalAttempts = @ + 1]
              IN  IF data.count > GlobalHourly
                  THEN Outcome(existing, FALSE, Rejected(GlobalRetryAfter, "global-hourly"))
                  ELSE Outcome(data, TRUE, Allowed(GlobalHourly - data.count))
    ELSE Outcome(RateLimitData(1, t, t, Null, 1), TRUE, Allowed(GlobalHourly - 1))

\* the result checkAllRateLimits returns, with the email result tested first
checkAllEmailFirst(ipResult, emailResult, globalResult) ==
    IF ~emailResult.allowed THEN emailResult
    ELSE IF ~ipResult.allowed THEN ipResult
    ELSE IF ~globalResult.allowed THEN globalResult
    ELSE Allowed(Min3(OrZero(ipResult.remaining), OrZero(emailResult.remaining),
                      OrZero(globalResult.remaining)))

\* checkAllRateLimits, lines 284-297: the result returned from the three
checkAllRateLimits(ipResult, emailResult, globalResult) ==
    IF ~ipResult.allowed THEN ipResult
    ELSE IF ~emailResult.allowed THEN emailResult
    ELSE IF ~globalResult.allowed THEN globalResult
    ELSE Allowed(Min3(OrZero(ipResult.remaining), OrZero(emailResult.remaining),
                      OrZero(globalResult.remaining)))

\* the key checkIPRateLimit(ip) reads and writes
IPKey(ip) == sha256Hash(ip)

\* the key checkEmailRateLimit(email) reads and writes
EmailKey(email) == sha256Hash(toLowerCase(email))

\* manualBlock: the key it writes; the identifier is hashed as given
ManualKey(identifier) == sha256Hash(identifier)

\* manualBlock: the document it writes at time t for a block of h half-hours
\* (durationHours = h / 2)
manualBlock(h, t) ==
    RateLimitData(ManualBlockCount, t, t, t + (h * 60 * 60 * 1000) \div 2,
                  ManualBlockCount)

\* durationHours of manualBlock, in half-hours: 0.5 h, 1 h, 2 h
HalfHours == {1, 2, 4}

---------------------------------------------------------------------------
(* Email validator: src/src/lib/emailValidator.ts *)

\* EmailValidationResult; reason "" and severity "" are undefined
Valid == [valid |-> TRUE, reason |-> "", severity |-> ""]
Invalid(reason, severity) == [valid |-> FALSE, reason |-> reason, severity |-> severity]

\* a normalizeEmail that removes one leading blank only
normalizeOneBlank(email) ==
    toLowerCase(IF email # <<>> /\ email[1] \in Whitespace THEN Tail(email) ELSE email)

\* a normalizeEmail that keeps the surrounding whitespace
normalizeUntrimmed(email) == toLowerCase(email)

\* normalizeEmail
normalizeEmail(email) == toLowerCase(trim(email))

\* the characters of the local part in EMAIL_REGEX (all but the backquote,
\* which a string of this module cannot hold)
LocalChars ==
    AlphaNum \cup {".", "!", "#", "$", "%", "&", "'", "*", "+", "/", "=", "?", "^",
                   "_", "{", "|", "}", "~", "-"}

\* one label of the domain in EMAIL_REGEX:
\* [a-zA-Z0-9](?:[a-zA-Z0-9-]{0,61}[a-zA-Z0-9])?
IsDomainLabel(l) ==
    /\ Len(l) >= 1
    /\ Len(l) <= 63
    /\ l[1] \in AlphaNum
    /\ l[Len(l)] \in AlphaNum
    /\ \A i \in 1..Len(l) : l[i] \in AlphaNum \cup {"-"}

\* EMAIL_REGEX.test(email)
MatchesEmailRegex(email) ==
    LET at == IndexOf(email, "@")
    IN  /\ at > 1
        /\ \A j \in 1..(at - 1) : email[j] \in LocalChars
        /\ LET labels == split(SubSeq(email, at + 1, Len(email)), ".")
           IN  \A n \in 1..Len(labels) : IsDomainLabel(labels[n])

\* validateEmailFormat
validateEmailFormat(email) ==
    IF Len(email) > 254
    THEN Invalid("Email address is too long (max 254 characters)", "low")
    ELSE IF Len(email) < 3
    THEN Invalid("Email address is too short", "low")
    ELSE IF ~includes(email, <<"@">>)
    THEN Invalid("Email address must contain @", "low")
    ELSE LET at == IndexOf(email, "@")
             local == SubSeq(email, 1, at - 1)
             domain == SubSeq(email, at + 1, Len(email))
         IN  IF Len(local) > 64
             THEN Invalid("Local part of email is too long (max 64 characters)", "low")
             ELSE IF domain = <<>> \/ ~includes(domain, <<".">>)
             THEN Invalid("Invalid email domain", "low")
             ELSE IF ~MatchesEmailRegex(email)
             THEN Invalid("Email address format is invalid", "low")
             ELSE Valid

\* the pattern ^(.)\1{4,}@ : one character five or more times, then @
RepeatedThenAt(email) ==
    \E n \in 5..(Len(email) - 1) :
        /\ email[1] # "\n"
        /\ \A j \in 1..n : email[j] = email[1]
        /\ email[n + 1] = "@"

\* checkSuspiciousPatterns
checkSuspiciousPatterns(email) ==
    LET lower == toLowerCase(email)
    IN  IF startsWith(lower, <<"t", "e", "s", "t", "@">>)
        THEN Invalid("Test email addresses are not allowed", "medium")
        ELSE IF startsWith(lower, <<"a", "d", "m", "i", "n", "@">>)
        THEN Invalid("Admin email addresses are suspicious", "medium")
        ELSE IF startsWith(lower, <<"n", "o", "-", "r", "e", "p", "l", "y", "@">>) \/ startsWith(lower, <<"n", "o", "r", "e", "p", "l", "y", "@">>)
        THEN Invalid("No-reply email addresses are not allowed", "medium")
        ELSE IF RepeatedThenAt(email)
        THEN Invalid("Email contains suspicious repeated characters", "medium")
        ELSE IF \E tld \in {<<"c", "o", "m">>, <<"o", "r", "g">>, <<"n", "e", "t">>, <<"e", "d", "u">>} :
                    endsWith(lower, <<"@", "e", "x", "a", "m", "p", "l", "e", ".">> \o tld)
        THEN Invalid("Example domain emails are not allowed", "medium")
        ELSE IF endsWith(lower, <<"@", "l", "o", "c", "a", "l", "h", "o", "s", "t">>)
        THEN Invalid("Localhost emails are not allowed", "medium")
        ELSE IF endsWith(email, <<"@", "1", "2", "7", ".", "0", ".", "0", ".", "1">>)
        THEN Invalid("IP-based email addresses are not allowed", "medium")
        ELSE IF startsWith(lower, <<"w", "e", "b", "m", "a", "s", "t", "e", "r", "@">>)
        THEN Invalid("Webmaster email addresses are suspicious", "medium")
        ELSE IF startsWith(lower, <<"p", "o", "s", "t", "m", "a", "s", "t", "e", "r", "@">>)
        THEN Invalid("Postmaster email addresses are suspicious", "medium")
        ELSE IF startsWith(lower, <<"a", "b", "u", "s", "e", "@">>)
        THEN Invalid("Abuse email addresses are suspicious", "medium")
        ELSE IF startsWith(lower, <<"s", "p", "a", "m", "@">>)
        THEN Invalid("Spam email addresses are not allowed", "medium")
        ELSE Valid

\* the words of the SQL pattern of checkMaliciousContent
SqlWords == {<<"u", "n", "i", "o", "n">>, <<"s", "e", "l", "e", "c", "t">>, <<"i", "n", "s", "e", "r", "t">>, <<"d", "r", "o", "p">>, <<"d", "e", "l", "e", "t", "e">>, <<"u", "p", "d", "a", "t", "e">>}

\* the literal patterns of checkMaliciousContent that ignore case
MaliciousIgnoreCase ==
    {<<"<", "s", "c", "r", "i", "p", "t">>, <<"j", "a", "v", "a", "s", "c", "r", "i", "p", "t", ":">>, <<"o", "n", "e", "r", "r", "o", "r", "=">>, <<"o", "n", "l", "o", "a", "d", "=">>, <<"<", "i", "f", "r", "a", "m", "e">>, <<"<", "o", "b", "j", "e", "c", "t">>, <<"<", "e", "m", "b", "e", "d">>}

\* the literal patterns of checkMaliciousContent that do not
MaliciousLiteral == {<<"-", "-">>, <<"/", "*">>, <<"*", "/">>, <<"'">>, <<"\"">>, <<".", ".">>, <<"\\0">>}

\* checkMaliciousContent
checkMaliciousContent(email) ==
    LET lower == toLowerCase(email)
    IN  IF \/ \E w \in SqlWords : includesWord(lower, w)
           \/ \E p \in MaliciousLiteral : includes(email, p)
           \/ \E p \in MaliciousIgnoreCase : includes(lower, p)
        THEN Invalid("Email contains potentially malicious content", "high")
        ELSE Valid

\* the domains of the disposable-email list
DisposableDomains == {<<"m", "a", "i", "l", "i", "n", "a", "t", "o", "r", ".", "c", "o", "m">>, <<"t", "e", "m", "p", "m", "a", "i", "l", ".", "c", "o", "m">>}

\* isDisposableEmail of utils/disposableEmails
isDisposableEmail(email) ==
    LET parts == split(toLowerCase(email), "@")
    IN  Len(parts) >= 2 /\ parts[2] \in DisposableDomains

\* checkDisposableEmail
checkDisposableEmail(email) ==
    IF isDisposableEmail(email)
    THEN Invalid("Temporary/disposable email addresses are not allowed", "medium")
    ELSE Valid

\* commonTypos of checkCommonTypos
GmailTypos == {<<"g", "m", "i", "a", "l", ".", "c", "o", "m">>, <<"g", "m", "a", "i", ".", "c", "o", "m">>, <<"g", "m", "a", "i", "i", "l", ".", "c", "o", "m">>, <<"g", "a", "m", "i", "l", ".", "c", "o", "m">>, <<"g", "m", "i", "l", ".", "c", "o", "m">>}
YahooTypos == {<<"y", "a", "h", "o", "o", "o", ".", "c", "o", "m">>, <<"y", "a", "h", "o", ".", "c", "o", "m">>, <<"y", "a", "h", "h", "o", ".", "c", "o", "m">>}
HotmailTypos == {<<"h", "o", "t", "m", "i", "a", "l", ".", "c", "o", "m">>, <<"h", "o", "t", "m", "a", "i", ".", "c", "o", "m">>}
OutlookTypos == {<<"o", "u", "t", "l", "o", "o", ".", "c", "o", "m">>, <<"o", "u", "t", "l", "o", "k", ".", "c", "o", "m">>}

\* checkCommonTypos
checkCommonTypos(email) ==
    LET parts == split(toLowerCase(email), "@")
        domain == IF Len(parts) >= 2 THEN parts[2] ELSE <<>>
    IN  IF domain \in GmailTypos THEN Invalid("Did you mean gmail.com?", "low")
        ELSE IF domain \in YahooTypos THEN Invalid("Did you mean yahoo.com?", "low")
        ELSE IF domain \in HotmailTypos THEN Invalid("Did you mean hotmail.com?", "low")
        ELSE IF domain \in OutlookTypos THEN Invalid("Did you mean outlook.com?", "low")
        ELSE Valid

\* a validateEmail without the check for suspicious patterns
validateUnsuspecting(email) ==
    LET normalizedEmail == toLowerCase(trim(email))
        checks == <<validateEmailFormat(normalizedEmail),
                    checkMaliciousContent(normalizedEmail),
                    checkDisposableEmail(normalizedEmail),
                    checkCommonTypos(normalizedEmail)>>
        failing == {i \in 1..4 : ~checks[i].valid}
    IN  IF failing = {} THEN Valid ELSE checks[MinOf(failing)]

\* a validateEmail that looks for suspicious patterns before malicious content
validateSuspiciousFirst(email) ==
    LET normalizedEmail == toLowerCase(trim(email))
        checks == <<validateEmailFormat(normalizedEmail),
                    checkSuspiciousPatterns(normalizedEmail),
                    checkMaliciousContent(normalizedEmail),
                    checkDisposableEmail(normalizedEmail),
                    checkCommonTypos(normalizedEmail)>>
        failing == {i \in 1..5 : ~checks[i].valid}
    IN  IF failing = {} THEN Valid ELSE checks[MinOf(failing)]

\* validateEmail, lines 232-254: the first failing check, in the order of the
\* checks array
validateEmailChecks(email) ==
    LET normalizedEmail == toLowerCase(trim(email))
        checks == <<validateEmailFormat(normalizedEmail),
                    checkMaliciousContent(normalizedEmail),
                    checkSuspiciousPatterns(normalizedEmail),
                    checkDisposableEmail(normalizedEmail),
                    checkCommonTypos(normalizedEmail)>>
        failing == {i \in 1..5 : ~checks[i].valid}
    IN  IF failing = {} THEN Valid ELSE checks[MinOf(failing)]

\* the addresses the requests of a run carry, as typed and normalized
EmailPadded == <<" ", " ", "J", "o", "@", "G", "D", "G", ".", "d", "e", "v", " ">>
EmailMalformed == <<"j", "o", ".", "g", "d", "g", ".", "d", "e", "v">>
RequestEmails == Emails \cup {EmailPadded, EmailMalformed}
Addresses == RequestEmails \cup {normalizeEmail(e) : e \in RequestEmails}

\* the verdicts of validateEmail on the addresses of a run, computed once
ValidatedAddresses == [e \in Addresses |-> validateEmailChecks(e)]

\* validateEmail
validateEmail(email) ==
    IF email \in Addresses THEN ValidatedAddresses[email] ELSE validateEmailChecks(email)

---------------------------------------------------------------------------
(* Subscription manager: src/src/lib/emailSubscription.ts *)

\* the document key of subscribeEmail(email) and getSubscriptionByEmail(email)
SubscriptionKey(email) == sha256Hash(toLowerCase(email))

SubscriptionKeys == {SubscriptionKey(e) : e \in Emails \cup {EmailUntrimmed}}

\* generateUUID(): the identifiers crypto.randomUUID() returns in a run
Tokens == {"c0ffee00-0000-4000-8000-000000000001",
           "c0ffee00-0000-4000-8000-000000000002"}

\* an identifier of the same form that was never issued
UnknownToken == "deadbeef-0000-4000-8000-000000000000"

UaBrowser == <<"M", "o", "z", "i", "l", "l", "a", "/", "5", ".", "0", " ", "(", "X",
               "1", "1", ";", " ", "L", "i", "n", "u", "x", ")", " ", "F", "i", "r",
               "e", "f", "o", "x", "/", "1", "2", "0">>
UaCurl == <<"c", "u", "r", "l", "/", "7", ".", "6", "8", ".", "0">>

\* the metadata argument of subscribeEmail
Metadata(ipHash, userAgent, country, referrer, locale) ==
    [ipHash |-> ipHash, userAgent |-> userAgent, country |-> country,
     referrer |-> referrer, locale |-> locale]

MetadataA == Metadata(sha256Hash(IpA), UaBrowser, NullStr, NullStr, <<"e", "n">>)
MetadataB == Metadata(sha256Hash(IpB), UaCurl, <<"C", "A">>, NullStr, <<"f", "r">>)
Metadatas == {MetadataA, MetadataB}

\* maskEmail: john.doe@example.com -> j***@example.com
maskEmail(email) ==
    LET parts == split(email, "@")
        local == parts[1]
        domain == IF Len(parts) >= 2 THEN parts[2] ELSE <<>>
    IN  IF domain = <<>> THEN email
        ELSE (IF local = <<>> THEN <<"u", "n", "d", "e", "f", "i", "n", "e", "d">>
              ELSE <<local[1]>>)
             \o <<"*", "*", "*", "@">> \o domain

\* what subscribeEmail returns
SubscribeResult(alreadySubscribed, email, subscribedAt) ==
    [success |-> TRUE, alreadySubscribed |-> alreadySubscribed,
     subscription |-> [email |-> maskEmail(email), status |-> "subscribed",
                       subscribedAt |-> subscribedAt]]

\* what unsubscribeEmail returns
UnsubscribeResult(success, email, notFound, alreadyUnsubscribed) ==
    [success |-> success, email |-> email, notFound |-> notFound,
     alreadyUnsubscribed |-> alreadyUnsubscribed]

\* subscribeEmail, lines 79-100: the record of a new subscription
NewSubscription(email, metadata, source, t, token) ==
    [exists |-> TRUE, email |-> email, emailHash |-> SubscriptionKey(email),
     status |-> "subscribed", subscribedAt |-> t, lastSubscribedAt |-> t,
     unsubscribedAt |-> Null, unsubscribeToken |-> token, source |-> source,
     subscriptionCount |-> 1, metadata |-> metadata, notes |-> NullStr,
     flaggedAsSpam |-> FALSE, createdAt |-> t, updatedAt |-> t]

\* subscribeEmail re-subscribing with a newly generated token
ResubscribeNewToken(existing, metadata, t, token) ==
    [existing EXCEPT !.status = "subscribed", !.lastSubscribedAt = t,
                     !.unsubscribedAt = Null, !.subscriptionCount = @ + 1,
                     !.updatedAt = t, !.metadata = metadata,
                     !.unsubscribeToken = token]

\* subscribeEmail re-subscribing without counting it
ResubscribeUncounted(existing, metadata, t, token) ==
    [existing EXCEPT !.status = "subscribed", !.lastSubscribedAt = t,
                     !.unsubscribedAt = Null, !.updatedAt = t, !.metadata = metadata]

\* subscribeEmail, lines 47-61: the update of a re-subscription
Resubscribe(existing, metadata, t, token) ==
    [existing EXCEPT !.status = "subscribed", !.lastSubscribedAt = t,
                     !.unsubscribedAt = Null, !.subscriptionCount = @ + 1,
                     !.updatedAt = t, !.metadata = metadata]

\* subscribeEmail reporting a new subscription it has not written
subscribeEmailUnwritten(existing, email, metadata, source, t, token) ==
    IF existing.exists /\ existing.status = "subscribed"
    THEN [doc |-> existing, wrote |-> FALSE,
          res |-> SubscribeResult(TRUE, email, existing.subscribedAt)]
    ELSE [doc |-> existing, wrote |-> FALSE, res |-> SubscribeResult(FALSE, email, t)]

\* subscribeEmail refreshing the record of an address that is subscribed
subscribeEmailTouching(existing, email, metadata, source, t, token) ==
    IF existing.exists /\ existing.status = "subscribed"
    THEN [doc |-> [existing EXCEPT !.updatedAt = t, !.metadata = metadata],
          wrote |-> TRUE,
          res |-> SubscribeResult(TRUE, email, existing.subscribedAt)]
    ELSE IF existing.exists /\ existing.status = "unsubscribed"
    THEN [doc |-> Resubscribe(existing, metadata, t, token), wrote |-> TRUE,
          res |-> SubscribeResult(FALSE, email, t)]
    ELSE [doc |-> NewSubscription(email, metadata, source, t, token), wrote |-> TRUE,
          res |-> SubscribeResult(FALSE, email, t)]

\* subscribeEmail on the document read (existing) at time t; token is what
\* generateUUID() returns if it is called
subscribeEmail(existing, email, metadata, source, t, token) ==
    IF existing.exists /\ existing.status = "subscribed"
    THEN [doc |-> existing, wrote |-> FALSE,
          res |-> SubscribeResult(TRUE, email, existing.subscribedAt)]
    ELSE IF existing.exists /\ existing.status = "unsubscribed"
    THEN [doc |-> Resubscribe(existing, metadata, t, token), wrote |-> TRUE,
          res |-> SubscribeResult(FALSE, email, t)]
    ELSE [doc |-> NewSubscription(email, metadata, source, t, token), wrote |-> TRUE,
          res |-> SubscribeResult(FALSE, email, t)]

\* the keys of the records query(where('unsubscribeToken', '==', token)) finds
TokenMatches(subs, token) ==
    {k \in DOMAIN subs : subs[k].exists /\ subs[k].unsubscribeToken = token}

\* unsubscribeEmail without the early return for an unsubscribed record
unsubscribeAlways(subs, token, t) ==
    LET found == TokenMatches(subs, token)
    IN  IF found = {}
        THEN [subs |-> subs, res |-> UnsubscribeResult(FALSE, <<>>, TRUE, FALSE)]
        ELSE LET k == CHOOSE j \in found : TRUE
             IN  [subs |-> [subs EXCEPT ![k].status = "unsubscribed",
                                        ![k].unsubscribedAt = t,
                                        ![k].updatedAt = t],
                  res |-> UnsubscribeResult(TRUE, maskEmail(subs[k].email), FALSE,
                                            subs[k].status = "unsubscribed")]

\* unsubscribeEmail revoking the token it was called with
unsubscribeRevoking(subs, token, t) ==
    LET found == TokenMatches(subs, token)
    IN  IF found = {}
        THEN [subs |-> subs, res |-> UnsubscribeResult(FALSE, <<>>, TRUE, FALSE)]
        ELSE LET k == CHOOSE j \in found : TRUE
             IN  IF subs[k].status = "unsubscribed"
                 THEN [subs |-> subs,
                       res |-> UnsubscribeResult(TRUE, maskEmail(subs[k].email), FALSE,
                                                 TRUE)]
                 ELSE [subs |-> [subs EXCEPT ![k].status = "unsubscribed",
                                             ![k].unsubscribedAt = t,
                                             ![k].updatedAt = t,
                                             ![k].unsubscribeToken = UnknownToken],
                       res |-> UnsubscribeResult(TRUE, maskEmail(subs[k].email), FALSE,
                                                 FALSE)]

\* unsubscribeEmail on the subscriptions collection at time t
unsubscribeEmail(subs, token, t) ==
    LET found == TokenMatches(subs, token)
    IN  IF found = {}
        THEN [subs |-> subs, res |-> UnsubscribeResult(FALSE, <<>>, TRUE, FALSE)]
        ELSE LET k == CHOOSE j \in found : TRUE
             IN  IF subs[k].status = "unsubscribed"
                 THEN [subs |-> subs,
                       res |-> UnsubscribeResult(TRUE, maskEmail(subs[k].email), FALSE,
                                                 TRUE)]
                 ELSE [subs |-> [subs EXCEPT ![k].status = "unsubscribed",
                                             ![k].unsubscribedAt = t,
                                             ![k].updatedAt = t],
                       res |-> UnsubscribeResult(TRUE, maskEmail(subs[k].email), FALSE,
                                                 FALSE)]

\* the tokens generateUUID() can return: those no record holds
FreshTokens(subs) ==
    {tok \in Tokens : TokenMatches(subs, tok) = {}}

\* what generateUUID() can return in subscribeEmail for the record k: it is
\* called only when a new record is created (line 77)
GeneratedTokens(subs, k) ==
    IF subs[k].exists /\ subs[k].status \in {"subscribed", "unsubscribed"}
    THEN {UnknownToken}
    ELSE FreshTokens(subs)

\* the calendar days (UTC) of the run
Days == {0}

NoSubResult == [success |-> FALSE]
NoResponse == [status |-> 0]

\* the application's collections are empty
InitApp ==
    /\ subscriptions = [k \in SubscriptionKeys |-> NoDoc]
    /\ metrics = [d \in Days |-> NoDoc]
    /\ abuseLog = <<>>
    /\ subResult = NoSubResult
    /\ response = NoResponse
    /\ stages = <<>>

---------------------------------------------------------------------------
(* Spam detector: src/unnamed/part_000 *)

\* a string value that is neither undefined (NullStr) nor empty
Truthy(s) == s # NullStr /\ s # <<>>

\* value || fallback, for strings
OrElse(s, fallback) == IF Truthy(s) THEN s ELSE fallback

\* SpamCheckResult; confidence is in tenths, the reason "" is undefined
SpamCheck(isSpam, reason, confidence, flags) ==
    [isSpam |-> isSpam, reason |-> reason, confidence |-> confidence, flags |-> flags]

\* { isSpam: false, confidence: 0, flags: [] }
NotSpam == SpamCheck(FALSE, "", 0, <<>>)

\* a checkHoneypot that is not definitive
checkHoneypotUnsure(honeypotValue) ==
    IF Truthy(honeypotValue) /\ trim(honeypotValue) # <<>>
    THEN SpamCheck(TRUE, "Honeypot field was filled", 8, <<"honeypot-filled">>)
    ELSE NotSpam

\* checkHoneypot
checkHoneypot(honeypotValue) ==
    IF Truthy(honeypotValue) /\ trim(honeypotValue) # <<>>
    THEN SpamCheck(TRUE, "Honeypot field was filled", 10, <<"honeypot-filled">>)
    ELSE NotSpam

\* checkSubmissionTiming at time t; Null is an undefined timestamp
checkSubmissionTiming(clientTimestamp, t) ==
    IF clientTimestamp = Null \/ clientTimestamp = 0
    THEN NotSpam
    ELSE IF t - clientTimestamp < 2000
    THEN SpamCheck(TRUE, "Form submitted too quickly (possible bot)", 9,
                   <<"submission-too-fast">>)
    ELSE IF t - clientTimestamp > 3600000
    THEN SpamCheck(TRUE, "Form submitted after suspicious delay", 6,
                   <<"submission-delayed">>)
    ELSE NotSpam

\* botPatterns of checkUserAgent, but for /java(?!script)/i
BotLiterals ==
    <<<<"b", "o", "t">>, <<"c", "r", "a", "w", "l", "e", "r">>, <<"s", "p", "i", "d", "e", "r">>, <<"s", "c", "r", "a", "p", "e", "r">>, <<"c", "u", "r", "l">>, <<"w", "g", "e", "t">>, <<"p", "y", "t", "h", "o", "n">>, <<"g", "o", "-", "h", "t", "t", "p">>,
      <<"o", "k", "h", "t", "t", "p">>, <<"a", "x", "i", "o", "s">>, <<"n", "o", "d", "e", "-", "f", "e", "t", "c", "h">>>>

\* the pattern java(?!script) on a lower-case string
JavaNotScript(lower) ==
    \E i \in 1..(Len(lower) - 3) :
        /\ SubSeq(lower, i, i + 3) = <<"j", "a", "v", "a">>
        /\ ~(i + 9 <= Len(lower) /\ SubSeq(lower, i + 4, i + 9) = <<"s", "c", "r", "i", "p", "t">>)

\* how many of botPatterns match
BotMatches(userAgent) ==
    LET lower == toLowerCase(userAgent)
    IN  Cardinality({n \in 1..Len(BotLiterals) : includes(lower, BotLiterals[n])})
        + (IF JavaNotScript(lower) THEN 1 ELSE 0)

Repeat(x, n) == [i \in 1..n |-> x]

\* Math.max
MaxNum(a, b) == IF a >= b THEN a ELSE b

\* checkUserAgent, lines 75-138
checkUserAgentPatterns(userAgent) ==
    IF ~Truthy(userAgent) \/ trim(userAgent) = <<>>
    THEN SpamCheck(TRUE, "Missing User-Agent header", 8, <<"no-user-agent">>)
    ELSE LET bots == BotMatches(userAgent)
             short == Len(userAgent) < 20
             old == includes(userAgent, <<"M", "S", "I", "E", " ", "6", ".", "0">>) \/ includes(userAgent, <<"M", "S", "I", "E", " ", "7", ".", "0">>)
             flags == Repeat("bot-user-agent", bots)
                      \o (IF short THEN <<"short-user-agent">> ELSE <<>>)
                      \o (IF old THEN <<"outdated-browser">> ELSE <<>>)
             afterBots == IF bots > 0 THEN 9 ELSE 0
             afterShort == IF short THEN MaxNum(afterBots, 7) ELSE afterBots
             confidence == IF old THEN MaxNum(afterShort, 6) ELSE afterShort
         IN  IF confidence > 5
             THEN SpamCheck(TRUE, "Suspicious User-Agent detected", confidence, flags)
             ELSE NotSpam

\* the User-Agent headers the requests of a run carry
UserAgents == {UaBrowser, UaCurl, <<>>}

\* the verdicts of checkUserAgent on the headers of a run, computed once
CheckedUserAgents == [u \in UserAgents |-> checkUserAgentPatterns(u)]

\* a checkUserAgent that reports a bot pattern with confidence 0.8
checkUserAgentUnsure(userAgent) ==
    [checkUserAgentPatterns(userAgent) EXCEPT !.confidence = IF @ > 8 THEN 8 ELSE @]

\* checkUserAgent
checkUserAgent(userAgent) ==
    IF userAgent \in UserAgents THEN CheckedUserAgents[userAgent]
    ELSE checkUserAgentPatterns(userAgent)

\* the prefixes of local and private addresses in checkIPReputation
PrivatePrefixes == {<<"1", "2", "7", ".">>, <<"1", "0", ".">>, <<"1", "9", "2", ".", "1", "6", "8", ".">>, <<"1", "7", "2", ".", "1", "6", ".">>, <<"f", "c", "0", "0", ":">>, <<"f", "d", "0", "0", ":">>}

\* checkIPReputation
checkIPReputation(ip) ==
    LET private == (\E p \in PrivatePrefixes : startsWith(ip, p)) \/ ip = <<":", ":", "1">>
        flags == IF private THEN <<"private-ip">> ELSE <<>>
        confidence == IF private THEN 5 ELSE 0
    IN  IF confidence > 5
        THEN SpamCheck(TRUE, "Suspicious IP address detected", confidence, flags)
        ELSE NotSpam

\* the letters of consonantStreak
Consonants ==
    {"b", "c", "d", "f", "g", "h", "j", "k", "l", "m", "n", "p", "q", "r", "s", "t",
     "v", "w", "x", "y", "z"}

\* checkEmailPatterns
checkEmailPatterns(email) ==
    LET local == split(email, "@")[1]
        long == Len(local) > 50
        numeric == local # <<>> /\ \A i \in 1..Len(local) : local[i] \in Digits
        random == \E i \in 1..(Len(local) - 5) :
                      \A j \in i..(i + 5) : LowerChar(local[j]) \in Consonants
        special == Cardinality({i \in 1..Len(local) : local[i] \notin AlphaNum}) > 5
        flags == (IF long THEN <<"long-local-part">> ELSE <<>>)
                 \o (IF numeric THEN <<"numeric-only">> ELSE <<>>)
                 \o (IF random THEN <<"random-string">> ELSE <<>>)
                 \o (IF special THEN <<"many-special-chars">> ELSE <<>>)
        afterLong == IF long THEN 5 ELSE 0
        afterNumeric == IF numeric THEN MaxNum(afterLong, 6) ELSE afterLong
        afterRandom == IF random THEN MaxNum(afterNumeric, 7) ELSE afterNumeric
        confidence == IF special THEN MaxNum(afterRandom, 6) ELSE afterRandom
    IN  IF confidence > 5
        THEN SpamCheck(TRUE, "Email shows suspicious patterns", confidence, flags)
        ELSE NotSpam

\* allFlags after the first n results of checks
RECURSIVE FlagsUpTo(_, _)
FlagsUpTo(checks, n) ==
    IF n = 0 THEN <<>> ELSE FlagsUpTo(checks, n - 1) \o checks[n].flags

RECURSIVE SumConfidence(_, _)
SumConfidence(checks, n) ==
    IF n = 0 THEN 0 ELSE SumConfidence(checks, n - 1) + checks[n].confidence

\* a detectSpam that does not count the flags
detectSpamByMean(email, honeypot, timestamp, userAgent, ip, t) ==
    LET Verdict(checks) ==
            LET definitive == {i \in 1..5 : checks[i].isSpam /\ checks[i].confidence >= 9}
                maxConfidence == MaxOf({checks[i].confidence : i \in 1..5})
            IN  IF definitive # {}
                THEN SpamCheck(TRUE, checks[MinOf(definitive)].reason,
                               checks[MinOf(definitive)].confidence,
                               FlagsUpTo(checks, MinOf(definitive)))
                ELSE SpamCheck(SumConfidence(checks, 5) > 25,
                               IF SumConfidence(checks, 5) > 25
                               THEN "Multiple spam indicators detected" ELSE "",
                               maxConfidence, FlagsUpTo(checks, 5))
    IN  Verdict(<<checkHoneypot(honeypot),
                  checkSubmissionTiming(timestamp, t),
                  checkUserAgent(userAgent),
                  checkIPReputation(ip),
                  checkEmailPatterns(email)>>)

\* a detectSpam that takes two flags for a verdict
detectSpamTwoFlags(email, honeypot, timestamp, userAgent, ip, t) ==
    LET Verdict(checks) ==
            LET definitive == {i \in 1..5 : checks[i].isSpam /\ checks[i].confidence >= 9}
                maxConfidence == MaxOf({checks[i].confidence : i \in 1..5})
            IN  IF definitive # {}
                THEN SpamCheck(TRUE, checks[MinOf(definitive)].reason,
                               checks[MinOf(definitive)].confidence,
                               FlagsUpTo(checks, MinOf(definitive)))
                ELSE IF SumConfidence(checks, 5) > 25 \/ Len(FlagsUpTo(checks, 5)) >= 2
                THEN SpamCheck(TRUE, "Multiple spam indicators detected", maxConfidence,
                               FlagsUpTo(checks, 5))
                ELSE SpamCheck(FALSE, "", maxConfidence, FlagsUpTo(checks, 5))
    IN  Verdict(<<checkHoneypot(honeypot),
                  checkSubmissionTiming(timestamp, t),
                  checkUserAgent(userAgent),
                  checkIPReputation(ip),
                  checkEmailPatterns(email)>>)

\* detectSpam at time t
detectSpam(email, honeypot, timestamp, userAgent, ip, t) ==
    LET Verdict(checks) ==
            LET definitive == {i \in 1..5 : checks[i].isSpam /\ checks[i].confidence >= 9}
                allFlags == FlagsUpTo(checks, 5)
                maxConfidence == MaxOf({checks[i].confidence : i \in 1..5})
                First(i) == SpamCheck(TRUE, checks[i].reason, checks[i].confidence,
                                      FlagsUpTo(checks, i))
                \* spamReason || 'Multiple spam indicators detected'
                Highest(c) ==
                    LET spamReason ==
                            IF c = 0 THEN ""
                            ELSE checks[MinOf({i \in 1..5 : checks[i].confidence = c})].reason
                    IN  IF spamReason # "" THEN spamReason
                        ELSE "Multiple spam indicators detected"
            IN  IF definitive # {}
                THEN First(MinOf(definitive))
                \* avgConfidence > 0.5, in tenths over five checks
                ELSE IF SumConfidence(checks, 5) > 25 \/ Len(allFlags) >= 3
                THEN SpamCheck(TRUE, Highest(maxConfidence), maxConfidence, allFlags)
                ELSE SpamCheck(FALSE, "", maxConfidence, allFlags)
    IN  Verdict(<<checkHoneypot(honeypot),
                  checkSubmissionTiming(timestamp, t),
                  checkUserAgent(userAgent),
                  checkIPReputation(ip),
                  checkEmailPatterns(email)>>)

\* logSpamAttempt at time t: the abuse log with the new entry
logSpamAttempt(log, spamResult, email, ip, userAgent, t) ==
    Append(log,
           [timestamp |-> t,
            type |-> "spam-detected",
            severity |-> IF spamResult.confidence > 8 THEN "high"
                         ELSE IF spamResult.confidence > 5 THEN "medium" ELSE "low",
            details |-> [email |-> sha256Hash(email),
                         ipHash |-> sha256Hash(ip),
                         userAgent |-> userAgent,
                         reason |-> IF spamResult.reason # "" THEN spamResult.reason
                                    ELSE "Spam detected",
                         additionalInfo |-> [confidence |-> spamResult.confidence,
                                             flags |-> spamResult.flags]],
            resolved |-> FALSE,
            resolvedAt |-> Null,
            resolvedBy |-> NullStr])

---------------------------------------------------------------------------
(* State *)

Op(name, args) == [name |-> name, args |-> args]

NoResult == [allowed |-> TRUE, retryAfter |-> Null, remaining |-> Null, reason |-> "init"]

\* the global counter of a system that has been serving requests in the
\* current window: GlobalHeadroom attempts are left before the ceiling
GlobalBusy ==
    RateLimitData(GlobalHourly - GlobalHeadroom, 0, 0, Null, GlobalHourly - GlobalHeadroom)

\* the global counter is followed up to the ceiling from GlobalBusy and for
\* GlobalHeadroom + 2 attempts in a fresh window
GlobalInBound ==
    IF globalLimit.exists
    THEN globalLimit.count >= GlobalHourly - GlobalHeadroom
         \/ globalLimit.count < GlobalHeadroom + 2
    ELSE TRUE

\* the two requests that can be in flight at once
Requests == {1, 2}

\* a request that is not between the getDoc and the setDoc of a check
NoRead == [reading |-> FALSE]

\* no call of detectSpam or validateEmail has returned
NoVerdict == [called |-> FALSE]

\* no check is in flight, and nothing has been counted yet
InitAux ==
    /\ verdict = NoVerdict
    /\ reads = [p \in Requests |-> NoRead]
    /\ grants = [k \in IPKeys \cup EmailKeys |-> 0]
    /\ resubscribed = [k \in SubscriptionKeys |-> 0]

\* the history of unsubscribed -> subscribed transitions follows the step
CountResubscriptions ==
    resubscribed' =
        [k \in SubscriptionKeys |->
            IF subscriptions[k].exists
            THEN IF subscriptions[k].status = "unsubscribed"
                    /\ subscriptions'[k].status = "subscribed"
                 THEN resubscribed[k] + 1
                 ELSE resubscribed[k]
            ELSE resubscribed[k]]

\* no counter document exists yet
InitIdle ==
    /\ now = 0
    /\ ticks = 0
    /\ ipLimits = [k \in IPKeys |-> NoDoc]
    /\ emailLimits = [k \in EmailKeys |-> NoDoc]
    /\ globalLimit = NoDoc
    /\ op = Op("init", <<>>)
    /\ rlResult = NoResult
    /\ InitApp
    /\ InitAux

\* no keyed counter exists yet; the global counter is absent or busy
InitRL ==
    /\ now = 0
    /\ ticks = 0
    /\ ipLimits = [k \in IPKeys |-> NoDoc]
    /\ emailLimits = [k \in EmailKeys |-> NoDoc]
    /\ globalLimit \in {NoDoc, GlobalBusy}
    /\ op = Op("init", <<>>)
    /\ rlResult = NoResult
    /\ InitApp
    /\ InitAux

\* the counters other than the keyed counter k have no document: the run
\* so far has used the key k alone
OnlyIPKey(k) ==
    /\ \A j \in IPKeys \ {k} : ~ipLimits[j].exists
    /\ \A j \in EmailKeys : ~emailLimits[j].exists
    /\ ~globalLimit.exists

OnlyEmailKey(k) ==
    /\ \A j \in IPKeys : ~ipLimits[j].exists
    /\ \A j \in EmailKeys \ {k} : ~emailLimits[j].exists
    /\ ~globalLimit.exists

OnlyGlobal ==
    /\ \A j \in IPKeys : ~ipLimits[j].exists
    /\ \A j \in EmailKeys : ~emailLimits[j].exists

---------------------------------------------------------------------------
(* Operations of the rate limiter *)

\* the clock advances by one of TimeSteps
Tick ==
    /\ ticks < MaxTicks
    /\ \E d \in TimeSteps : now' = now + d
    /\ ticks' = ticks + 1
    /\ op' = Op("tick", <<>>)
    /\ UNCHANGED rlVars
    /\ UNCHANGED appVars
    /\ UNCHANGED auxVars

\* the clock advances past one window
LongTick ==
    /\ ticks < MaxLongTicks
    /\ now' = now + HourMs + 1
    /\ ticks' = ticks + 1
    /\ op' = Op("tick", <<>>)
    /\ UNCHANGED rlVars
    /\ UNCHANGED appVars
    /\ UNCHANGED auxVars

\* checkIPRateLimit(ip)
CheckIP(ip) ==
    LET o == checkIPRateLimit(ipLimits[IPKey(ip)], now) IN
    /\ ipLimits' = [ipLimits EXCEPT ![IPKey(ip)] = o.doc]
    /\ rlResult' = o.res
    /\ op' = Op("checkIPRateLimit", <<ip>>)
    /\ UNCHANGED <<now, ticks, emailLimits, globalLimit, appVars>>

\* checkEmailRateLimit(email)
CheckEmail(email) ==
    LET o == checkEmailRateLimit(emailLimits[EmailKey(email)], now) IN
    /\ emailLimits' = [emailLimits EXCEPT ![EmailKey(email)] = o.doc]
    /\ rlResult' = o.res
    /\ op' = Op("checkEmailRateLimit", <<email>>)
    /\ UNCHANGED <<now, ticks, ipLimits, globalLimit, appVars>>

\* checkGlobalRateLimit()
CheckGlobal ==
    /\ GlobalInBound
    /\ LET o == checkGlobalRateLimit(globalLimit, now) IN
        /\ globalLimit' = o.doc
        /\ rlResult' = o.res
    /\ op' = Op("checkGlobalRateLimit", <<>>)
    /\ UNCHANGED <<now, ticks, ipLimits, emailLimits, appVars>>

\* checkAllRateLimits(ip, email): the three checks run to completion
\* (Promise.all), each on its own document, then the results are combined
CheckAll(ip, email) ==
    /\ GlobalInBound
    /\ LET i == checkIPRateLimit(ipLimits[IPKey(ip)], now)
           e == checkEmailRateLimit(emailLimits[EmailKey(email)], now)
           g == checkGlobalRateLimit(globalLimit, now)
       IN  /\ ipLimits' = [ipLimits EXCEPT ![IPKey(ip)] = i.doc]
           /\ emailLimits' = [emailLimits EXCEPT ![EmailKey(email)] = e.doc]
           /\ globalLimit' = g.doc
           /\ rlResult' = checkAllRateLimits(i.res, e.res, g.res)
    /\ op' = Op("checkAllRateLimits", <<ip, email>>)
    /\ UNCHANGED <<now, ticks, appVars>>

\* manualBlock('ip', ip, h / 2)
ManualBlockIP(ip, h) ==
    /\ ipLimits' = [ipLimits EXCEPT ![ManualKey(ip)] = manualBlock(h, now)]
    /\ op' = Op("manualBlock", <<"ip", ip, h>>)
    /\ UNCHANGED <<now, ticks, emailLimits, globalLimit, rlResult, appVars>>

\* manualBlock('email', email, h / 2)
ManualBlockEmail(email, h) ==
    /\ emailLimits' = [emailLimits EXCEPT ![ManualKey(email)] = manualBlock(h, now)]
    /\ op' = Op("manualBlock", <<"email", email, h>>)
    /\ UNCHANGED <<now, ticks, ipLimits, globalLimit, rlResult, appVars>>

---------------------------------------------------------------------------
(* Specifications of the rate limiter *)

\* sequential attempts, all of a run against one key
AttemptIP == \E ip \in IPs : OnlyIPKey(IPKey(ip)) /\ CheckIP(ip) /\ UNCHANGED auxVars
AttemptEmail ==
    \E email \in Emails :
        OnlyEmailKey(EmailKey(email)) /\ CheckEmail(email) /\ UNCHANGED auxVars
AttemptGlobal == OnlyGlobal /\ CheckGlobal /\ UNCHANGED auxVars

NextAttempts == Tick \/ AttemptIP \/ AttemptEmail \/ AttemptGlobal
SpecAttempts == InitIdle /\ [][NextAttempts]_vars

\* sequential attempts and administrative blocks, all of a run against one key
AdminBlockIP ==
    \E ip \in IPs, h \in HalfHours :
        OnlyIPKey(ManualKey(ip)) /\ ManualBlockIP(ip, h) /\ UNCHANGED auxVars
AdminBlockEmail ==
    \E email \in {EmailA, EmailB}, h \in HalfHours :
        OnlyEmailKey(ManualKey(email)) /\ ManualBlockEmail(email, h) /\ UNCHANGED auxVars

NextOneKey ==
    Tick \/ AttemptIP \/ AttemptEmail \/ AttemptGlobal \/ AdminBlockIP \/ AdminBlockEmail
SpecOneKey == InitIdle /\ [][NextOneKey]_vars

\* composite checks across the three scopes
AttemptAll ==
    \E ip \in {IpA}, email \in Emails : CheckAll(ip, email) /\ UNCHANGED auxVars

NextAll == LongTick \/ AttemptAll
SpecAll == InitRL /\ [][NextAll]_vars

\* the history of allowed checks of the key k follows the step
Granted(k) == grants' = [grants EXCEPT ![k] = IF rlResult'.allowed THEN @ + 1 ELSE @]

\* the clock advances past one window, within one day
HourTick ==
    /\ ticks < MaxHours
    /\ now + HourMs + 1 < DayMs
    /\ now' = now + HourMs + 1
    /\ ticks' = ticks + 1
    /\ op' = Op("tick", <<>>)
    /\ UNCHANGED rlVars
    /\ UNCHANGED appVars
    /\ UNCHANGED auxVars

\* sequential attempts of one address and of one email over the windows of
\* a day, with the allowed ones counted
DayAttemptIP ==
    /\ CheckIP(IpA)
    /\ Granted(IPKey(IpA))
    /\ UNCHANGED <<reads, resubscribed, verdict>>
DayAttemptEmail ==
    \E email \in {EmailA, EmailAUpper} :
        /\ CheckEmail(email)
        /\ Granted(EmailKey(email))
        /\ UNCHANGED <<reads, resubscribed, verdict>>

\* a check that would compute from the document stored when it writes
Latest(read, stored) == stored

\* the document a check computes from: existing = rateLimitDoc.data(), what
\* getDoc returned to it, whatever is stored by the time of its setDoc
Snapshot(read, stored) == read

\* the first half of a check by request p: now = Date.now(), then getDoc
BeginCheck(p, scope, id, doc) ==
    /\ ~reads[p].reading
    /\ reads' = [reads EXCEPT ![p] = [reading |-> TRUE, scope |-> scope, id |-> id,
                                      doc |-> doc, at |-> now]]
    /\ op' = Op("getDoc", <<scope, id>>)
    /\ UNCHANGED <<now, ticks, rlVars, appVars, grants, resubscribed, verdict>>

BeginIP == \E p \in Requests : BeginCheck(p, "ip", IpA, ipLimits[IPKey(IpA)])
BeginEmail ==
    \E p \in Requests, email \in {EmailA, EmailAUpper} :
        BeginCheck(p, "email", email, emailLimits[EmailKey(email)])

\* the second half of checkIPRateLimit by request p: the decision on the
\* document it read, and setDoc unless it returned early
FinishIP ==
    \E p \in Requests :
        /\ reads[p].reading
        /\ reads[p].scope = "ip"
        /\ \E o \in {checkIPRateLimit(Snapshot(reads[p].doc, ipLimits[IPKey(reads[p].id)]),
                                       reads[p].at)} :
              /\ ipLimits' = IF o.wrote THEN [ipLimits EXCEPT ![IPKey(reads[p].id)] = o.doc]
                              ELSE ipLimits
              /\ rlResult' = o.res
        /\ Granted(IPKey(reads[p].id))
        /\ reads' = [reads EXCEPT ![p] = NoRead]
        /\ op' = Op("checkIPRateLimit", <<reads[p].id>>)
        /\ UNCHANGED <<now, ticks, emailLimits, globalLimit, appVars, resubscribed, verdict>>

\* the second half of checkEmailRateLimit by request p
FinishEmail ==
    \E p \in Requests :
        /\ reads[p].reading
        /\ reads[p].scope = "email"
        /\ \E o \in {checkEmailRateLimit(Snapshot(reads[p].doc,
                                                   emailLimits[EmailKey(reads[p].id)]),
                                          reads[p].at)} :
              /\ emailLimits' = IF o.wrote
                                 THEN [emailLimits EXCEPT ![EmailKey(reads[p].id)] = o.doc]
                                 ELSE emailLimits
              /\ rlResult' = o.res
        /\ Granted(EmailKey(reads[p].id))
        /\ reads' = [reads EXCEPT ![p] = NoRead]
        /\ op' = Op("checkEmailRateLimit", <<reads[p].id>>)
        /\ UNCHANGED <<now, ticks, ipLimits, globalLimit, appVars, resubscribed, verdict>>

\* the checks of two concurrent requests, interleaved at the awaits
NextRace == BeginIP \/ BeginEmail \/ FinishIP \/ FinishEmail
SpecRace == InitIdle /\ [][NextRace]_vars

\* sequential global checks of a system that is idle or close to its ceiling
NextGlobal == Tick \/ AttemptGlobal
SpecGlobal == InitRL /\ [][NextGlobal]_vars

NextDay == HourTick \/ DayAttemptIP \/ DayAttemptEmail
SpecDay == InitIdle /\ [][NextDay]_vars

---------------------------------------------------------------------------
(* Operations of the subscription manager *)

\* subscribeEmail(email, metadata, source)
Subscribe(email, metadata, source) ==
    /\ subscriptions[SubscriptionKey(email)].exists =>
          \/ subscriptions[SubscriptionKey(email)].status = "subscribed"
          \/ subscriptions[SubscriptionKey(email)].subscriptionCount < MaxSubscriptionCount
    /\ \E token \in GeneratedTokens(subscriptions, SubscriptionKey(email)) :
          LET o == subscribeEmail(subscriptions[SubscriptionKey(email)], email, metadata,
                                  source, now, token)
          IN  /\ subscriptions' = [subscriptions EXCEPT ![SubscriptionKey(email)] = o.doc]
              /\ subResult' = o.res
    /\ CountResubscriptions
    /\ op' = Op("subscribeEmail", <<email, metadata, source>>)
    /\ UNCHANGED <<now, ticks, ipLimits, emailLimits, globalLimit, rlResult, metrics,
                   abuseLog, response, stages, reads, grants, verdict>>

\* unsubscribeEmail(token)
Unsubscribe(token) ==
    /\ LET o == unsubscribeEmail(subscriptions, token, now)
       IN  /\ subscriptions' = o.subs
           /\ subResult' = o.res
    /\ CountResubscriptions
    /\ op' = Op("unsubscribeEmail", <<token>>)
    /\ UNCHANGED <<now, ticks, ipLimits, emailLimits, globalLimit, rlResult, metrics,
                   abuseLog, response, stages, reads, grants, verdict>>

\* sequential calls of the subscription manager
SubscribeAny ==
    \/ \E metadata \in Metadatas : Subscribe(EmailAUpper, metadata, "homepage")
    \/ Subscribe(EmailB, MetadataA, "homepage")
UnsubscribeAny == \E token \in Tokens \cup {UnknownToken} : Unsubscribe(token)

NextSub == LongTick \/ SubscribeAny \/ UnsubscribeAny
SpecSub == InitIdle /\ [][NextSub]_vars

---------------------------------------------------------------------------
(* Subscribe endpoint: src/unnamed/part_003, lines 325-580 *)

\* Date.prototype.toISOString: the calendar day and the time of the day
toISOString(t) == [date |-> t \div DayMs, time |-> t % DayMs]

\* new Date().toISOString().split('T')[0]
Today(t) == toISOString(t).date

DigitChars == <<"0", "1", "2", "3", "4", "5", "6", "7", "8", "9">>

\* Number.prototype.toString of a natural number
RECURSIVE toString(_)
toString(n) ==
    IF n < 10 THEN <<DigitChars[n + 1]>>
    ELSE toString(n \div 10) \o <<DigitChars[(n % 10) + 1]>>

\* logSubscriptionMetrics (emailSubscription.ts) on the day's document read
logSubscriptionMetrics(existing, type, t) ==
    IF existing.exists
    THEN IF type = "subscription"
         THEN [existing EXCEPT !.updatedAt = t, !.newSubscriptions = @ + 1,
                               !.netGrowth = @ + 1]
         ELSE [existing EXCEPT !.updatedAt = t, !.unsubscriptions = @ + 1,
                               !.netGrowth = @ - 1]
    ELSE [exists |-> TRUE, date |-> Today(t),
          newSubscriptions |-> IF type = "subscription" THEN 1 ELSE 0,
          unsubscriptions |-> IF type = "unsubscription" THEN 1 ELSE 0,
          netGrowth |-> IF type = "subscription" THEN 1 ELSE -1,
          rateLimitedAttempts |-> 0, spamAttempts |-> 0, uniqueIPs |-> 1,
          createdAt |-> t, updatedAt |-> t]

\* if (metricsDoc.exists()) updateDoc(metricsDocRef, {[field]: increment(1), updatedAt})
incrementMetric(existing, field, t) ==
    IF existing.exists
    THEN [existing EXCEPT ![field] = @ + 1, !.updatedAt = t]
    ELSE existing

\* the headers of a request the endpoint reads; NullStr is an absent header
Headers(xForwardedFor, xRealIp, xVercelForwardedFor, userAgent, country, referer, acceptLanguage) ==
    [xForwardedFor |-> xForwardedFor, xRealIp |-> xRealIp,
     xVercelForwardedFor |-> xVercelForwardedFor, userAgent |-> userAgent,
     country |-> country, referer |-> referer, acceptLanguage |-> acceptLanguage]

\* a request: bodyOk is whether request.json() parses the body; NullStr and
\* Null are the fields the body does not have
Request(bodyOk, email, honeypot, source, timestamp, headers) ==
    [bodyOk |-> bodyOk, email |-> email, honeypot |-> honeypot, source |-> source,
     timestamp |-> timestamp, headers |-> headers]

\* getClientIP
getClientIP(headers) ==
    IF Truthy(headers.xForwardedFor)
    THEN trim(split(headers.xForwardedFor, ",")[1])
    ELSE IF Truthy(headers.xRealIp) THEN headers.xRealIp
    ELSE IF Truthy(headers.xVercelForwardedFor) THEN headers.xVercelForwardedFor
    ELSE <<"u", "n", "k", "n", "o", "w", "n">>

\* getCountry
getCountry(headers) == OrElse(headers.country, NullStr)

\* request.headers.get('accept-language')?.split(',')[0] || 'en'
getLocale(headers) ==
    IF headers.acceptLanguage = NullStr THEN <<"e", "n">>
    ELSE OrElse(split(headers.acceptLanguage, ",")[1], <<"e", "n">>)

\* the stores a handler reads and writes
Stores(ipL, emailL, globalL, subs, mets, log) ==
    [ipLimits |-> ipL, emailLimits |-> emailL, globalLimit |-> globalL,
     subscriptions |-> subs, metrics |-> mets, abuseLog |-> log]

\* the collections whose operations can fail during a request
FailurePoints == {"none", "abuseLog", "rateLimits", "subscriptions", "metrics"}

\* the stages of POST, in the order of its statements
StageOrder == <<"honeypot", "validation", "rateLimit", "spam", "subscribe", "metrics">>

\* the first n stages
Stages(n) == SubSeq(StageOrder, 1, n)

\* NextResponse.json(body, {status, headers})
Json(status, headers, body) == [status |-> status, headers |-> headers, body |-> body]

NoHeaders == <<>>

\* the body of an error response
ErrorBody(message, code, errorMessage) ==
    [success |-> FALSE, message |-> message,
     error |-> [code |-> code, message |-> errorMessage]]

\* POST, lines 565-579: the response of the catch block
ServerError ==
    Json(500, NoHeaders,
         ErrorBody("An error occurred. Please try again later.", "SERVER_ERROR",
                   "Internal server error"))

\* what handling a request comes to: the stores, the response, the stages
\* entered, and the results of checkAllRateLimits and subscribeEmail
Handled(st, resp, entered, rl, sub) ==
    [st |-> st, response |-> resp, stages |-> entered, rl |-> rl, sub |-> sub]

\* a honeypot test that lets every request through
honeypotIgnored(honeypot) == FALSE

\* POST, line 382: honeypot && honeypot.trim() !== ''
honeypotFilled(honeypot) == Truthy(honeypot) /\ trim(honeypot) # <<>>

\* POST, lines 384-401: the honeypot branch
honeypotStage(ctx, st) ==
    IF ctx.fail = "abuseLog"
    THEN Handled(st, ServerError, Stages(1), NoResult, NoSubResult)
    ELSE Handled([st EXCEPT !.abuseLog =
                      logSpamAttempt(@, SpamCheck(TRUE, "Honeypot filled", 10,
                                                  <<"honeypot-filled">>),
                                     OrElse(ctx.request.email, <<"u", "n", "k", "n", "o", "w", "n">>),
                                     ctx.ip, ctx.userAgent, ctx.t)],
                 Json(200, NoHeaders,
                      [success |-> TRUE,
                       message |-> "Thanks for subscribing! We'll keep you updated."]),
                 Stages(1), NoResult, NoSubResult)

\* POST, lines 544-563: the success response
successResponse(result) ==
    Json(200, NoHeaders,
         [success |-> TRUE,
          message |-> IF result.alreadySubscribed
                      THEN "You're already subscribed! We'll keep you updated."
                      ELSE "Thanks for subscribing! We'll keep you updated.",
          data |-> [status |-> "subscribed",
                    subscribedAt |-> toISOString(result.subscription.subscribedAt)]])

\* POST, lines 525-563: the subscription write, the metrics update and the
\* success response
subscriptionStage(ctx, st, rl) ==
    IF ctx.fail = "subscriptions"
    THEN Handled(st, ServerError, Stages(5), rl, NoSubResult)
    ELSE LET key == SubscriptionKey(ctx.email)
             o == subscribeEmail(st.subscriptions[key], ctx.email,
                                 Metadata(sha256Hash(ctx.ip), ctx.userAgent, ctx.country,
                                          ctx.referrer, ctx.locale),
                                 ctx.source, ctx.t, ctx.token)
             written == [st EXCEPT !.subscriptions[key] = o.doc]
         IN  IF o.res.alreadySubscribed
             THEN Handled(written, successResponse(o.res), Stages(5), rl, o.res)
             ELSE Handled(IF ctx.fail = "metrics" THEN written
                          ELSE [written EXCEPT !.metrics[Today(ctx.t)] =
                                    logSubscriptionMetrics(@, "subscription", ctx.t)],
                          successResponse(o.res), Stages(6), rl, o.res)

\* POST, lines 479-523: spam detection and its rejection
spamStage(ctx, st, rl) ==
    LET Decide(spamResult) ==
            IF ~spamResult.isSpam THEN subscriptionStage(ctx, st, rl)
            ELSE IF ctx.fail = "abuseLog"
            THEN Handled(st, ServerError, Stages(4), rl, NoSubResult)
            ELSE LET logged == [st EXCEPT !.abuseLog =
                                    logSpamAttempt(@, spamResult, ctx.email, ctx.ip,
                                                   ctx.userAgent, ctx.t)]
                 IN  Handled(IF ctx.fail = "metrics" THEN logged
                             ELSE [logged EXCEPT !.metrics[Today(ctx.t)] =
                                       incrementMetric(@, "spamAttempts", ctx.t)],
                             Json(400, NoHeaders,
                                  ErrorBody("Unable to process your request. Please try again later.",
                                            "INVALID_REQUEST",
                                            "Unable to process your request")),
                             Stages(4), rl, NoSubResult)
    IN  Decide(detectSpam(ctx.email, ctx.request.honeypot, ctx.request.timestamp,
                          ctx.userAgent, ctx.ip, ctx.t))

\* a rate-limit rejection that carries no retry timing
rateLimitedWithoutRetry(rateLimitResult) ==
    Json(429, NoHeaders,
         ErrorBody(rateLimitResult.reason, "RATE_LIMIT_EXCEEDED", rateLimitResult.reason))

\* POST, lines 459-476: the response of a rate-limit rejection
rateLimitedResponse(rateLimitResult) ==
    Json(429,
         ("X-RateLimit-Remaining" :>
              (IF rateLimitResult.remaining = Null THEN <<"0">>
               ELSE toString(rateLimitResult.remaining)))
         @@ ("Retry-After" :>
              (IF rateLimitResult.retryAfter = Null THEN <<"3", "6", "0", "0">>
               ELSE toString(rateLimitResult.retryAfter))),
         [success |-> FALSE, message |-> rateLimitResult.reason,
          error |-> [code |-> "RATE_LIMIT_EXCEEDED",
                     message |-> rateLimitResult.reason,
                     retryAfter |-> rateLimitResult.retryAfter]])

\* POST, lines 437-477: rate limiting and its rejection
rateLimitStage(ctx, st) ==
    IF ctx.fail = "rateLimits"
    THEN Handled(st, ServerError, Stages(3), NoResult, NoSubResult)
    ELSE LET i == checkIPRateLimit(st.ipLimits[IPKey(ctx.ip)], ctx.t)
             e == checkEmailRateLimit(st.emailLimits[EmailKey(ctx.email)], ctx.t)
             g == checkGlobalRateLimit(st.globalLimit, ctx.t)
             counted == [st EXCEPT !.ipLimits[IPKey(ctx.ip)] = i.doc,
                                   !.emailLimits[EmailKey(ctx.email)] = e.doc,
                                   !.globalLimit = g.doc]
             rateLimitResult == checkAllRateLimits(i.res, e.res, g.res)
         IN  IF rateLimitResult.allowed THEN spamStage(ctx, counted, rateLimitResult)
             ELSE Handled(IF ctx.fail = "metrics" THEN counted
                          ELSE [counted EXCEPT !.metrics[Today(ctx.t)] =
                                    incrementMetric(@, "rateLimitedAttempts", ctx.t)],
                          rateLimitedResponse(rateLimitResult),
                          Stages(3), rateLimitResult, NoSubResult)

\* POST, lines 404-435: the email must be present and valid
validationStage(ctx, st) ==
    IF ~Truthy(ctx.request.email)
    THEN Handled(st,
                 Json(400, NoHeaders,
                      ErrorBody("Email address is required", "INVALID_EMAIL",
                                "Email address is required")),
                 Stages(2), NoResult, NoSubResult)
    ELSE LET emailValidation == validateEmail(ctx.email)
             reason == IF emailValidation.reason # "" THEN emailValidation.reason
                       ELSE "Invalid email address"
         IN  IF ~emailValidation.valid
             THEN Handled(st, Json(400, NoHeaders, ErrorBody(reason, "INVALID_EMAIL", reason)),
                          Stages(2), NoResult, NoSubResult)
             ELSE rateLimitStage(ctx, st)

\* POST of the subscribe endpoint at time t on the stores st; token is what
\* generateUUID() returns if it is called, fail the collection whose
\* operations throw during the request
POST(request, st, t, token, fail) ==
    IF ~request.bodyOk
    THEN Handled(st, ServerError, <<>>, NoResult, NoSubResult)
    ELSE LET ctx == [request |-> request,
                     ip |-> getClientIP(request.headers),
                     userAgent |-> OrElse(request.headers.userAgent, <<>>),
                     country |-> getCountry(request.headers),
                     referrer |-> OrElse(request.headers.referer, NullStr),
                     locale |-> getLocale(request.headers),
                     source |-> IF request.source = NullStr THEN <<"h", "o", "m", "e", "p", "a", "g", "e">>
                                ELSE request.source,
                     email |-> IF Truthy(request.email) THEN normalizeEmail(request.email)
                               ELSE NullStr,
                     t |-> t, token |-> token, fail |-> fail]
         IN  IF honeypotFilled(request.honeypot)
             THEN honeypotStage(ctx, st)
             ELSE validationStage(ctx, st)

\* the headers of the requests of a run: all come from the address IpA
BrowserHeaders ==
    Headers(IpA \o <<",", " ">> \o IpB, NullStr, NullStr, UaBrowser, <<"C", "A">>, NullStr, <<"e", "n", "-", "C", "A", ",", "f", "r">>)
PlainHeaders == Headers(NullStr, IpA, NullStr, UaBrowser, NullStr, NullStr, NullStr)
CurlHeaders == Headers(NullStr, NullStr, IpA, UaCurl, NullStr, NullStr, NullStr)

\* the subscribe requests sent at time t, each with the collection that
\* fails while it is handled
Injections(t) ==
    \* a visitor's submission, with the address typed in capitals between blanks
    ({Request(TRUE, EmailPadded, NullStr, NullStr, t - 5000, BrowserHeaders)}
        \X {"none", "rateLimits", "subscriptions", "metrics"})
    \* another visitor's, with a blank honeypot and no timestamp
    \cup ({Request(TRUE, EmailB, <<" ">>, <<"f", "o", "o", "t", "e", "r">>, Null, PlainHeaders)} \X {"none"})
    \* a bot's, which fills the honeypot
    \cup ({Request(TRUE, EmailAUpper, <<"h", "t", "t", "p", ":", "/", "/", "s", "p", "a", "m", ".", "t", "e", "s", "t">>, NullStr, t - 5000, BrowserHeaders)}
        \X {"none", "abuseLog"})
    \* submissions without a valid address
    \cup ({Request(TRUE, EmailMalformed, NullStr, NullStr, t - 5000, BrowserHeaders),
           Request(TRUE, NullStr, NullStr, NullStr, t - 5000, BrowserHeaders)}
        \X {"none"})
    \* a script's
    \cup ({Request(TRUE, EmailB, NullStr, NullStr, t - 5000, CurlHeaders)}
        \X {"none", "abuseLog", "metrics"})
    \* a body that is not JSON
    \cup ({Request(FALSE, NullStr, NullStr, NullStr, Null, PlainHeaders)} \X {"none"})

---------------------------------------------------------------------------
(* Operations of the subscribe endpoint *)

\* what generateUUID() can return while the request is handled
RequestTokens(request) ==
    IF Truthy(request.email)
    THEN IF SubscriptionKey(normalizeEmail(request.email)) \in SubscriptionKeys
         THEN GeneratedTokens(subscriptions, SubscriptionKey(normalizeEmail(request.email)))
         ELSE {UnknownToken}
    ELSE {UnknownToken}

\* the stores after a request are within the bounds of the model
InBounds(st) ==
    /\ Len(st.abuseLog) <= MaxAbuseLog
    /\ IF st.globalLimit.exists
       THEN st.globalLimit.count <= GlobalHeadroom + 2
       ELSE TRUE

\* POST /api/subscribe, handled to its response
PostSubscribe(request, fail) ==
    /\ \E token \in RequestTokens(request) :
          \E o \in {POST(request,
                          Stores(ipLimits, emailLimits, globalLimit, subscriptions, metrics,
                                 abuseLog),
                          now, token, fail)} :
              /\ InBounds(o.st)
              /\ ipLimits' = o.st.ipLimits
              /\ emailLimits' = o.st.emailLimits
              /\ globalLimit' = o.st.globalLimit
              /\ subscriptions' = o.st.subscriptions
              /\ metrics' = o.st.metrics
              /\ abuseLog' = o.st.abuseLog
              /\ rlResult' = o.rl
              /\ subResult' = o.sub
              /\ response' = o.response
              /\ stages' = o.stages
    /\ CountResubscriptions
    /\ op' = Op("POST /api/subscribe", <<request, fail>>)
    /\ UNCHANGED <<now, ticks, reads, grants, verdict>>

\* requests arrive one after another
PostSubscribeAny == \E inj \in Injections(now) : PostSubscribe(inj[1], inj[2])

NextApi == PostSubscribeAny
SpecApi == InitIdle /\ [][NextApi]_vars

\* one address as visitors type it: between blanks and in capitals in the
\* footer form, in capitals or in lower case on the homepage; and another
\* address
Submissions(t) ==
    {Request(TRUE, EmailPadded, NullStr, <<"f", "o", "o", "t", "e", "r">>, t - 5000, BrowserHeaders),
     Request(TRUE, EmailAUpper, NullStr, NullStr, t - 5000, BrowserHeaders),
     Request(TRUE, EmailA, NullStr, NullStr, t - 5000, BrowserHeaders),
     Request(TRUE, EmailB, NullStr, NullStr, t - 5000, PlainHeaders)}

\* a visitor submits the form and no store fails
Signup == \E request \in Submissions(now) : PostSubscribe(request, "none")

\* sign-ups and unsubscriptions in any order
NextSignup == Signup \/ UnsubscribeAny
SpecSignup == InitIdle /\ [][NextSignup]_vars

---------------------------------------------------------------------------
(* Unsubscribe endpoint: src/unnamed/part_003, lines 160-290 *)

\* the token field of the JSON body: absent, a string, or a number
NoToken == [type |-> "undefined"]
StringToken(text) == [type |-> "string", text |-> text]
NumberToken == [type |-> "number"]

\* !token
TokenFalsy(token) ==
    \/ token.type = "undefined"
    \/ IF token.type = "string" THEN token.text = <<>> ELSE FALSE

\* [0-9a-f] under the flag i
HexDigits == Digits \cup {"a", "b", "c", "d", "e", "f", "A", "B", "C", "D", "E", "F"}

\* uuidRegex.test(token)
MatchesUuidRegex(text) ==
    IF Len(text) # 36 THEN FALSE
    ELSE \A i \in 1..36 :
            IF i \in {9, 14, 19, 24} THEN text[i] = "-"
            ELSE IF i = 15 THEN text[i] = "4"
            ELSE IF i = 20 THEN text[i] \in {"8", "9", "a", "b", "A", "B"}
            ELSE text[i] \in HexDigits

\* the characters of the tokens that generateUUID() returns in the model
TokenText(tok) ==
    CASE tok = "c0ffee00-0000-4000-8000-000000000001"
            -> <<"c", "0", "f", "f", "e", "e", "0", "0", "-", "0", "0", "0", "0", "-", "4", "0", "0", "0", "-", "8", "0", "0", "0", "-", "0", "0", "0", "0", "0", "0", "0", "0", "0", "0", "0", "1">>
      [] tok = "c0ffee00-0000-4000-8000-000000000002"
            -> <<"c", "0", "f", "f", "e", "e", "0", "0", "-", "0", "0", "0", "0", "-", "4", "0", "0", "0", "-", "8", "0", "0", "0", "-", "0", "0", "0", "0", "0", "0", "0", "0", "0", "0", "0", "2">>
      [] tok = UnknownToken -> <<"d", "e", "a", "d", "b", "e", "e", "f", "-", "0", "0", "0", "0", "-", "4", "0", "0", "0", "-", "8", "0", "0", "0", "-", "0", "0", "0", "0", "0", "0", "0", "0", "0", "0", "0", "0">>

\* a string that is the unsubscribeToken of no record
Unheld == "unheld"

\* the value where('unsubscribeToken', '==', token) compares with: the token
\* with these characters
TokenOf(text) ==
    LET same == {tok \in Tokens \cup {UnknownToken} : TokenText(tok) = text}
    IN  IF same = {} THEN Unheld ELSE CHOOSE tok \in same : TRUE

\* a request to the unsubscribe endpoint
UnsubscribeRequest(bodyOk, token, headers) ==
    [bodyOk |-> bodyOk, token |-> token, headers |-> headers]

\* POST (unsubscribe), lines 232-262: the success responses
unsubscribedResponse(result, t) ==
    Json(200, NoHeaders,
         [success |-> TRUE,
          message |-> IF result.alreadyUnsubscribed THEN "You were already unsubscribed"
                      ELSE "You've been successfully unsubscribed. Sorry to see you go!",
          data |-> [email |-> result.email, unsubscribedAt |-> toISOString(t)]])

\* POST (unsubscribe), lines 216-229: the response for a token no record holds
notFoundResponse ==
    Json(404, NoHeaders,
         ErrorBody("Invalid or expired unsubscribe link", "INVALID_TOKEN",
                   "Subscription not found"))

\* an unsubscription whose metrics failure reaches the handler's catch block
unsubscribeUncaught(request, st, t, fail) ==
    LET o == unsubscribeEmail(st.subscriptions, TokenOf(request.token.text), t)
        written == [st EXCEPT !.subscriptions = o.subs]
    IN  IF fail = "subscriptions"
        THEN Handled(st, ServerError, <<>>, NoResult, NoSubResult)
        ELSE IF o.res.notFound THEN Handled(written, notFoundResponse, <<>>, NoResult, o.res)
        ELSE IF o.res.alreadyUnsubscribed
        THEN Handled(written, unsubscribedResponse(o.res, t), <<>>, NoResult, o.res)
        ELSE IF fail = "metrics" THEN Handled(written, ServerError, <<>>, NoResult, o.res)
        ELSE Handled([written EXCEPT !.metrics[Today(t)] =
                          logSubscriptionMetrics(@, "unsubscription", t)],
                     unsubscribedResponse(o.res, t), <<>>, NoResult, o.res)

\* an unsubscription that logs the metric also for a record that was
\* unsubscribed already
unsubscribeAlwaysLogged(request, st, t, fail) ==
    LET o == unsubscribeEmail(st.subscriptions, TokenOf(request.token.text), t)
        written == [st EXCEPT !.subscriptions = o.subs]
    IN  IF fail = "subscriptions"
        THEN Handled(st, ServerError, <<>>, NoResult, NoSubResult)
        ELSE IF o.res.notFound THEN Handled(written, notFoundResponse, <<>>, NoResult, o.res)
        ELSE Handled(IF fail = "metrics" THEN written
                     ELSE [written EXCEPT !.metrics[Today(t)] =
                               logSubscriptionMetrics(@, "unsubscription", t)],
                     unsubscribedResponse(o.res, t), <<>>, NoResult, o.res)

\* POST (unsubscribe), lines 213-262: the unsubscription of a well-formed
\* token, the metrics update and the response
unsubscribeStage(request, st, t, fail) ==
    IF fail = "subscriptions"
    THEN Handled(st, ServerError, <<>>, NoResult, NoSubResult)
    ELSE LET o == unsubscribeEmail(st.subscriptions, TokenOf(request.token.text), t)
             written == [st EXCEPT !.subscriptions = o.subs]
         IN  IF o.res.notFound
             THEN Handled(written, notFoundResponse, <<>>, NoResult, o.res)
             ELSE Handled(IF o.res.alreadyUnsubscribed \/ fail = "metrics" THEN written
                          ELSE [written EXCEPT !.metrics[Today(t)] =
                                    logSubscriptionMetrics(@, "unsubscription", t)],
                          unsubscribedResponse(o.res, t), <<>>, NoResult, o.res)

\* POST of the unsubscribe endpoint at time t on the stores st; fail is the
\* collection whose operations throw during the request
unsubscribePOST(request, st, t, fail) ==
    IF ~request.bodyOk
    THEN Handled(st, ServerError, <<>>, NoResult, NoSubResult)
    ELSE IF TokenFalsy(request.token) \/ request.token.type # "string"
    THEN Handled(st,
                 Json(400, NoHeaders,
                      ErrorBody("Invalid unsubscribe token", "INVALID_TOKEN",
                                "Unsubscribe token is required")),
                 <<>>, NoResult, NoSubResult)
    ELSE IF ~MatchesUuidRegex(request.token.text)
    THEN Handled(st,
                 Json(400, NoHeaders,
                      ErrorBody("Invalid unsubscribe link", "INVALID_TOKEN",
                                "Invalid token format")),
                 <<>>, NoResult, NoSubResult)
    ELSE unsubscribeStage(request, st, t, fail)

\* the token fields of the unsubscribe requests of a run: none, empty, a
\* number, no UUID, a UUID of version 1, the tokens of the model and one of
\* them in capitals
RequestedTokens ==
    {NoToken, StringToken(<<>>), NumberToken, StringToken(<<"n", "o", "t", "-", "a", "-", "t", "o", "k", "e", "n">>),
     StringToken(<<"c", "0", "f", "f", "e", "e", "0", "0", "-", "0", "0", "0", "0", "-", "1", "0", "0", "0", "-", "8", "0", "0", "0", "-", "0", "0", "0", "0", "0", "0", "0", "0", "0", "0", "0", "1">>),
     StringToken(<<"C", "0", "F", "F", "E", "E", "0", "0", "-", "0", "0", "0", "0", "-", "4", "0", "0", "0", "-", "8", "0", "0", "0", "-", "0", "0", "0", "0", "0", "0", "0", "0", "0", "0", "0", "1">>)}
    \cup {StringToken(TokenText(tok)) : tok \in Tokens \cup {UnknownToken}}

\* the unsubscribe requests of a run, each with the collection that fails
\* while it is handled
UnsubscribeInjections ==
    ({UnsubscribeRequest(TRUE, token, PlainHeaders) : token \in RequestedTokens}
        \X {"none"})
    \cup ({UnsubscribeRequest(TRUE, StringToken(TokenText(tok)), PlainHeaders) :
                tok \in Tokens} \X {"metrics", "subscriptions"})
    \cup ({UnsubscribeRequest(FALSE, NoToken, PlainHeaders)} \X {"none"})

---------------------------------------------------------------------------
(* Operations of the two endpoints *)

\* POST /api/unsubscribe, handled to its response
PostUnsubscribe(request, fail) ==
    /\ \E o \in {unsubscribePOST(request,
                                  Stores(ipLimits, emailLimits, globalLimit, subscriptions,
                                         metrics, abuseLog),
                                  now, fail)} :
          /\ subscriptions' = o.st.subscriptions
          /\ metrics' = o.st.metrics
          /\ subResult' = o.sub
          /\ response' = o.response
    /\ CountResubscriptions
    /\ op' = Op("POST /api/unsubscribe", <<request, fail>>)
    /\ UNCHANGED <<now, ticks, ipLimits, emailLimits, globalLimit, rlResult, abuseLog,
                   stages, reads, grants, verdict>>

PostUnsubscribeAny == \E inj \in UnsubscribeInjections : PostUnsubscribe(inj[1], inj[2])

\* a visitor submits the footer form while the metrics store works or fails
SignupMetered ==
    \E request \in {r \in Submissions(now) : r.email = EmailPadded},
       fail \in {"none", "metrics"} :
        PostSubscribe(request, fail)

\* sign-ups and unsubscriptions through the endpoints, in any order
NextEndpoints == SignupMetered \/ PostUnsubscribeAny
SpecEndpoints == InitIdle /\ [][NextEndpoints]_vars

---------------------------------------------------------------------------
(* Calls of detectSpam and validateEmail *)

\* the fields of the data detectSpam is called with
SpamEmails ==
    {EmailA, <<"a", "a", "a", "a", "a", "a", "@", "x", ".", "c", "o", "m">>, <<"1", "2", "3", "4", "5", "@", "g", "d", "g", ".", "d", "e", "v">>, <<"x", "k", "c", "d", "q", "w", "r", "t", "z", "p", "@", "g", "d", "g", ".", "d", "e", "v">>, <<"b", "c", "d", "f", "g", "h", ".", "-", ".", "-", ".", "-", ".", "@", "g", "d", "g", ".", "d", "e", "v">>}
SpamHoneypots == {NullStr, <<" ">>, <<"x">>, <<" ", "h", "t", "t", "p", ":", "/", "/", "s", "p", "a", "m", ".", "t", "e", "s", "t", " ">>}
SpamUserAgents ==
    {UaBrowser, UaCurl, <<>>, <<"M", "o", "z", "i", "l", "l", "a", "/", "5", ".", "0">>, <<"M", "S", "I", "E", " ", "6", ".", "0">>, <<"p", "y", "t", "h", "o", "n", "-", "b", "o", "t">>}
SpamIPs ==
    {IpA, IpB, <<"1", "2", "7", ".", "0", ".", "0", ".", "1">>, <<"1", "9", "2", ".", "1", "6", "8", ".", "1", ".", "2", "0">>, <<"1", "7", "2", ".", "1", "6", ".", "0", ".", "9">>, <<":", ":", "1">>, <<"f", "c", "0", "0", ":", ":", "1">>, <<"f", "d", "0", "0", ":", ":", "1">>}

\* server time minus client timestamp, in ms, of the timestamps sent
Elapsed == {-1000, 500, 1999, 2000, 3600000, 3600001}

\* the timestamp field: absent, the number 0, or some time before t
SpamTimestamps(t) == {Null, 0} \cup {t - e : e \in Elapsed}

\* the addresses validateEmail is called with
ValidatedEmails ==
    {EmailA, EmailPadded, EmailMalformed, <<"a", "@">>, <<"t", "e", "s", "t", "@", "g", "d", "g", ".", "d", "e", "v">>, <<"o", "'", "n", "e", "i", "l", "@", "e", "x", "a", "m", "p", "l", "e", ".", "c", "o", "m">>,
     <<"t", "e", "s", "t", "@", "d", "r", "o", "p", ".", "d", "e", "v">>, <<"t", "e", "s", "t", "@", "l", "o", "c", "a", "l", "h", "o", "s", "t">>, <<"<", "s", "c", "r", "i", "p", "t", ">", "@", "m", "a", "i", "l", "i", "n", "a", "t", "o", "r", ".", "c", "o", "m">>, <<"j", "o", "@", "m", "a", "i", "l", "i", "n", "a", "t", "o", "r", ".", "c", "o", "m">>,
     <<"j", "o", "@", "g", "m", "i", "a", "l", ".", "c", "o", "m">>, <<"a", "d", "m", "i", "n", "@", "m", "a", "i", "l", "i", "n", "a", "t", "o", "r", ".", "c", "o", "m">>, <<"s", "p", "a", "m", "@", "g", "m", "i", "a", "l", ".", "c", "o", "m">>, <<"a", "-", "-", "b", "@", "g", "m", "i", "a", "l", ".", "c", "o", "m">>,
     <<" ", "T", "E", "S", "T", "@", "E", "x", "a", "m", "p", "l", "e", ".", "C", "O", "M", " ">>, <<"t", "e", "s", "t", "@", "e", "x", "a", "m", "p", "l", "e", ".", "c", "o", "m">>, <<"j", "a", "n", "e", ".", "d", "o", "e", "@", "o", "u", "t", "l", "o", "o", "k", ".", "c", "o", "m">>, <<"j", "o", "@", "e", "x", "a", "m", "p", "l", "e", ".", "c", "o", "m">>,
     <<" ", " ">>, <<>>, <<"\t">> \o <<"J", "a", "n", "e", " ", "D", "o", "e", "@", "O", "u", "t", "l", "o", "o", "k", ".", "c", "o", "m">> \o <<"\n">>}

\* the calls of a run
Calls(t) ==
    {Op("detectSpam", <<email, honeypot, timestamp, userAgent, ip>>) :
        email \in SpamEmails, honeypot \in SpamHoneypots,
        timestamp \in SpamTimestamps(t), userAgent \in SpamUserAgents, ip \in SpamIPs}
    \cup {Op("validateEmail", <<email>>) : email \in ValidatedEmails}
    \cup {Op("normalizeEmail", <<email>>) : email \in ValidatedEmails}

\* a call is about to be made, two hours into the run
InitCall ==
    /\ now = 2 * HourMs
    /\ ticks = 0
    /\ ipLimits = [k \in IPKeys |-> NoDoc]
    /\ emailLimits = [k \in EmailKeys |-> NoDoc]
    /\ globalLimit = NoDoc
    /\ rlResult = NoResult
    /\ InitApp
    /\ InitAux
    /\ op \in Calls(now)

\* detectSpam(data) returns
DetectSpam ==
    /\ op.name = "detectSpam"
    /\ ~verdict.called
    /\ verdict' = [called |-> TRUE,
                   result |-> detectSpam(op.args[1], op.args[2], op.args[3], op.args[4],
                                         op.args[5], now)]
    /\ UNCHANGED <<now, ticks, rlVars, appVars, op, reads, grants, resubscribed>>

\* validateEmail(email) returns
ValidateEmail ==
    /\ op.name = "validateEmail"
    /\ ~verdict.called
    /\ verdict' = [called |-> TRUE, result |-> validateEmail(op.args[1])]
    /\ UNCHANGED <<now, ticks, rlVars, appVars, op, reads, grants, resubscribed>>

\* normalizeEmail(email) returns
NormalizeEmail ==
    /\ op.name = "normalizeEmail"
    /\ ~verdict.called
    /\ verdict' = [called |-> TRUE, result |-> normalizeEmail(op.args[1])]
    /\ UNCHANGED <<now, ticks, rlVars, appVars, op, reads, grants, resubscribed>>

NextCall == DetectSpam \/ ValidateEmail \/ NormalizeEmail
SpecCall == InitCall /\ [][NextCall]_vars

---------------------------------------------------------------------------
(* Claims about the rate limiter *)

\* the document of the key that the last operation checked
IPDocOf(o) == ipLimits[IPKey(o.args[1])]
EmailDocOf(o) == emailLimits[EmailKey(o.args[1])]

\* one attempt on a keyed counter, seen from outside: the document before
\* (pre) and after (post), the result (res), the time (t), and the scope's
\* hourly limit and block duration in seconds
C1_Attempt(pre, post, res, t, limit, block) ==
    /\ ~pre.exists => res.allowed /\ post.count = 1
    /\ (pre.exists /\ ~(pre.blockedUntil # Null /\ pre.blockedUntil > t)
                   /\ t - pre.windowStart <= HourMs) =>
          /\ pre.count < limit => res.allowed /\ post.count = pre.count + 1
                                              /\ post.blockedUntil = Null
          /\ pre.count = limit => ~res.allowed /\ post.count = limit + 1
                                               /\ post.blockedUntil = t + block * 1000
    /\ (pre.exists /\ pre.blockedUntil # Null /\ t > pre.blockedUntil) =>
          res.allowed /\ post.count = 1 /\ post.blockedUntil = Null

\* C1: for one key of the per-IP scope (limit 3, block 3600 s) and of the
\* per-email scope (limit 2, block 7200 s), attempts 1..limit of a window are
\* allowed, attempt limit+1 is rejected and persists blockedUntil = now +
\* block, and an attempt made strictly after blockedUntil is allowed and
\* stores count = 1 with blockedUntil cleared.
C1_LimitBlockReset ==
    [][/\ \A ip \in IPs :
            op' = Op("checkIPRateLimit", <<ip>>) =>
                C1_Attempt(ipLimits[IPKey(ip)], ipLimits'[IPKey(ip)], rlResult',
                           now, 3, 3600)
       /\ \A email \in Emails :
            op' = Op("checkEmailRateLimit", <<email>>) =>
                C1_Attempt(emailLimits[EmailKey(email)], emailLimits'[EmailKey(email)],
                           rlResult', now, 2, 7200)]_vars

\* an email counter that was blocked by its third attempt has been reset by
\* an allowed attempt after the block
C1_Witness ==
    /\ op.name = "checkEmailRateLimit"
    /\ rlResult.allowed
    /\ EmailDocOf(op).count = 1
    /\ EmailDocOf(op).blockedUntil = Null
    /\ EmailDocOf(op).totalAttempts = 4

\* r = ceil(ms / 1000): the least number of whole seconds covering ms
IsCeilSeconds(r, ms) == r * 1000 >= ms /\ (r - 1) * 1000 < ms

C2_Blocked(pre, res, t) ==
    (pre.exists /\ pre.blockedUntil # Null /\ pre.blockedUntil > t) =>
        /\ ~res.allowed
        /\ IsCeilSeconds(res.retryAfter, pre.blockedUntil - t)

\* C2: if the stored blockedUntil of a per-IP or per-email counter is set and
\* greater than the current time, the check of that key returns allowed =
\* false with retryAfter = ceil((blockedUntil - now) / 1000), whatever the
\* stored count and windowStart are.
C2_BlockedRejects ==
    [][/\ \A ip \in IPs :
            op' = Op("checkIPRateLimit", <<ip>>) =>
                C2_Blocked(ipLimits[IPKey(ip)], rlResult', now)
       /\ \A email \in Emails :
            op' = Op("checkEmailRateLimit", <<email>>) =>
                C2_Blocked(emailLimits[EmailKey(email)], rlResult', now)]_vars

\* a check is rejected by a block that ends a fraction of a second ahead,
\* on a counter whose window has already expired
C2_Witness ==
    /\ op.name = "checkIPRateLimit"
    /\ ~rlResult.allowed
    /\ IPDocOf(op).blockedUntil > now
    /\ (IPDocOf(op).blockedUntil - now) % 1000 # 0
    /\ IPDocOf(op).windowStart < now - HourMs
    /\ rlResult.retryAfter * 1000 > IPDocOf(op).blockedUntil - now

\* the least of three numbers
IsMin3(m, a, b, c) == m \in {a, b, c} /\ m <= a /\ m <= b /\ m <= c

\* C9: checkAllRateLimits returns the IP result when the IP scope rejects,
\* else the email result when the email scope rejects, else the global result
\* when the global scope rejects; when all three allow it returns allowed =
\* true with remaining the minimum of the three scopes' remaining values.
C9_FirstRejectionOrMin ==
    [][\A ip \in IPs, email \in Emails :
          op' = Op("checkAllRateLimits", <<ip, email>>) =>
            LET i == checkIPRateLimit(ipLimits[IPKey(ip)], now).res
                e == checkEmailRateLimit(emailLimits[EmailKey(email)], now).res
                g == checkGlobalRateLimit(globalLimit, now).res
            IN  /\ ~i.allowed => rlResult' = i
                /\ (i.allowed /\ ~e.allowed) => rlResult' = e
                /\ (i.allowed /\ e.allowed /\ ~g.allowed) => rlResult' = g
                /\ (i.allowed /\ e.allowed /\ g.allowed) =>
                      /\ rlResult'.allowed
                      /\ rlResult'.retryAfter = Null
                      /\ IsMin3(rlResult'.remaining, i.remaining, e.remaining,
                                g.remaining)]_vars

\* the global scope alone rejected a composite check
C9_Witness ==
    /\ op.name = "checkAllRateLimits"
    /\ ~rlResult.allowed
    /\ rlResult.reason = "global-hourly"
    /\ rlResult.retryAfter = 300
    /\ ipLimits[IPKey(op.args[1])].blockedUntil = Null
    /\ emailLimits[EmailKey(op.args[2])].blockedUntil = Null
    /\ globalLimit.count = 500

\* C10: when an attempt brings a per-IP counter's count in the current window
\* above the daily ceiling (10), the persisted block lasts 3 times the base
\* block duration (blockedUntil = now + 10800 s) and the rejection carries
\* retryAfter = 10800.
C10_DailyBlockTripled ==
    [][\A ip \in IPs :
          (/\ op' = Op("checkIPRateLimit", <<ip>>)
           /\ ipLimits[IPKey(ip)].exists
           /\ ipLimits'[IPKey(ip)].count = ipLimits[IPKey(ip)].count + 1
           /\ ipLimits'[IPKey(ip)].windowStart = ipLimits[IPKey(ip)].windowStart
           /\ ipLimits'[IPKey(ip)].count > 10) =>
              /\ ipLimits'[IPKey(ip)].blockedUntil = now + 10800 * 1000
              /\ ~rlResult'.allowed
              /\ rlResult'.retryAfter = 10800]_vars

\* C11: for any sequence of sequential attempts, within any span of 24 hours
\* at most 10 attempts from one IP are allowed by checkIPRateLimit and at most
\* 5 attempts for one email are allowed by checkEmailRateLimit.  A run starts
\* at time 0, so while now < 24 h every allowed attempt lies in one such span.
C11_DailyCeilings ==
    now < DayMs =>
        /\ \A k \in IPKeys : grants[k] <= PerIPDaily
        /\ \A k \in EmailKeys : grants[k] <= PerEmailDaily

\* C12: a checkGlobalRateLimit attempt that would bring the global count
\* above 500 inside the current window is rejected with retryAfter = 300 and
\* writes nothing (count, blockedUntil, totalAttempts and the rest of the
\* record are unchanged, no block is persisted), so every later attempt in
\* that window is rejected too; once windowStart is older than one hour the
\* next attempt is allowed with count = 1.
C12_GlobalSoftLimit ==
    [][(op'.name = "checkGlobalRateLimit" /\ globalLimit.exists) =>
          IF globalLimit.windowStart < now - 60 * 60 * 1000
          THEN /\ rlResult'.allowed
               /\ globalLimit'.count = 1
          ELSE globalLimit.count + 1 > 500 =>
                  /\ ~rlResult'.allowed
                  /\ rlResult'.retryAfter = 300
                  /\ globalLimit' = globalLimit
                  /\ globalLimit'.blockedUntil = Null]_vars

\* an attempt made later in the window of a full counter was rejected and
\* left the counter as it was
C12_Witness ==
    /\ op.name = "checkGlobalRateLimit"
    /\ ~rlResult.allowed
    /\ rlResult.retryAfter = 300
    /\ globalLimit.count = 500
    /\ globalLimit.totalAttempts = 500
    /\ globalLimit.blockedUntil = Null
    /\ globalLimit.lastAttempt < now
    /\ now <= globalLimit.windowStart + 60 * 60 * 1000

\* one attempt on a counter, seen from outside: an expired window of a
\* counter that is not blocked is replaced by a new one that starts now; a
\* window that has not expired keeps its start; no other start is ever stored
C13_Attempt(pre, post, res, t) ==
    pre.exists =>
        /\ (~(pre.blockedUntil # Null /\ pre.blockedUntil > t)
                /\ t - pre.windowStart > HourMs) =>
              /\ res.allowed
              /\ post.count = 1
              /\ post.windowStart = t
              /\ post.blockedUntil = Null
        /\ t - pre.windowStart <= HourMs => post.windowStart = pre.windowStart
        /\ post.windowStart \in {pre.windowStart, t}

\* C13: for every scope, an attempt on a counter that is not blocked and
\* whose windowStart is more than one hour old is always allowed and stores
\* count = 1, windowStart = now, blockedUntil = null; an attempt inside the
\* window never changes windowStart.  The window is never slid.
C13_FixedWindow ==
    [][/\ \A ip \in IPs :
            op' = Op("checkIPRateLimit", <<ip>>) =>
                C13_Attempt(ipLimits[IPKey(ip)], ipLimits'[IPKey(ip)], rlResult', now)
       /\ \A email \in Emails :
            op' = Op("checkEmailRateLimit", <<email>>) =>
                C13_Attempt(emailLimits[EmailKey(email)], emailLimits'[EmailKey(email)],
                            rlResult', now)
       /\ op'.name = "checkGlobalRateLimit" =>
                C13_Attempt(globalLimit, globalLimit', rlResult', now)]_vars

\* three attempts of one address spread over a whole hour shared one window,
\* and the attempt one millisecond after the hour opened a new one
C13_Witness ==
    /\ op.name = "checkIPRateLimit"
    /\ rlResult.allowed
    /\ now = HourMs + 1
    /\ IPDocOf(op).count = 1
    /\ IPDocOf(op).windowStart = now
    /\ IPDocOf(op).blockedUntil = Null
    /\ IPDocOf(op).totalAttempts = 4

\* the count a check that read the document doc increments from
C14_Base(doc) == IF doc.exists THEN doc.count ELSE 0

\* request p completes its check in this step
C14_Completes(p) == reads[p].reading /\ ~reads'[p].reading

\* C14: rate-limit checks are a non-atomic read followed by a write: when two
\* checks for the same key interleave so that both read the counter before
\* either writes, both increment from the same base and the stored count
\* ends at base + 1, so the number of attempts allowed for one key inside one
\* window can exceed the hourly limit.  Every allowed check stores the count
\* it read plus one, also when another check has stored that count since.
C14_LostUpdate ==
    [][\A p \in Requests :
          (C14_Completes(p) /\ rlResult'.allowed) =>
              /\ reads[p].scope = "ip" =>
                    ipLimits'[IPKey(reads[p].id)].count = C14_Base(reads[p].doc) + 1
              /\ reads[p].scope = "email" =>
                    emailLimits'[EmailKey(reads[p].id)].count
                        = C14_Base(reads[p].doc) + 1]_vars

\* in one window more checks of one address were allowed than the hourly
\* limit, and the stored count does not show it
C14_Witness ==
    /\ op.name = "checkIPRateLimit"
    /\ rlResult.allowed
    /\ \A p \in Requests : ~reads[p].reading
    /\ IPDocOf(op).windowStart = now
    /\ IPDocOf(op).blockedUntil = Null
    /\ IPDocOf(op).count <= PerIPHourly
    /\ IPDocOf(op).count < grants[IPKey(op.args[1])]
    /\ grants[IPKey(op.args[1])] > PerIPHourly

\* C15: the totalAttempts field of a rate-limit counter is a lifetime
\* counter: across any sequence of checkIPRateLimit, checkEmailRateLimit,
\* checkGlobalRateLimit and manualBlock operations on a key, the stored
\* totalAttempts never decreases and is never reset.
C15_TotalAttemptsLifetime ==
    [][/\ \A k \in IPKeys :
            ipLimits[k].exists => ipLimits'[k].totalAttempts >= ipLimits[k].totalAttempts
       /\ \A k \in EmailKeys :
            emailLimits[k].exists =>
                emailLimits'[k].totalAttempts >= emailLimits[k].totalAttempts
       /\ globalLimit.exists => globalLimit'.totalAttempts >= globalLimit.totalAttempts]_vars

\* the document of a key is as manualBlock wrote it: no check has written
\* it since
C16_ManuallyBlocked(doc) ==
    /\ doc.exists
    /\ doc.count = 999
    /\ doc.totalAttempts = 999
    /\ doc.lastAttempt = doc.windowStart
    /\ doc.blockedUntil # Null

\* a check of a manually blocked key: rejected before the expiry, allowed
\* strictly after it
C16_Check(pre, res, t) ==
    C16_ManuallyBlocked(pre) =>
        /\ t < pre.blockedUntil => ~res.allowed
        /\ t > pre.blockedUntil => res.allowed

\* C16: after manualBlock(type, id, d) for any positive duration d (in hours,
\* including d below 1), every rate-limit check of that key made before
\* now + d is rejected, and the first check made strictly after the explicit
\* expiry now + d is allowed.
C16_ManualBlockExpiry ==
    [][/\ \A ip \in IPs :
            op' = Op("checkIPRateLimit", <<ip>>) =>
                C16_Check(ipLimits[IPKey(ip)], rlResult', now)
       /\ \A email \in Emails :
            op' = Op("checkEmailRateLimit", <<email>>) =>
                C16_Check(emailLimits[EmailKey(email)], rlResult', now)]_vars

---------------------------------------------------------------------------
(* Claims about the subscription manager *)

\* the keys of the records that hold the token tok
HoldersOf(tok) ==
    {k \in SubscriptionKeys : subscriptions[k].exists
                              /\ subscriptions[k].unsubscribeToken = tok}

\* C3: for an email with a subscribed record, unsubscribeEmail(token) then
\* subscribeEmail(email) leaves the record subscribed with subscriptionCount
\* exactly one higher than before, the same unsubscribeToken and unsubscribedAt
\* null again, in every cycle: the unsubscription keeps count and token, the
\* re-subscription adds one to the count and keeps the token.
C3_CycleAddsOne ==
    [][/\ \A tok \in Tokens, k \in SubscriptionKeys :
            (/\ op' = Op("unsubscribeEmail", <<tok>>)
             /\ HoldersOf(tok) = {k}
             /\ subscriptions[k].status = "subscribed") =>
                /\ subscriptions'[k].status = "unsubscribed"
                /\ subscriptions'[k].subscriptionCount = subscriptions[k].subscriptionCount
                /\ subscriptions'[k].unsubscribeToken = tok
       /\ \A email \in Emails :
            LET k == sha256Hash(toLowerCase(email)) IN
            (/\ op'.name = "subscribeEmail"
             /\ op'.args[1] = email
             /\ subscriptions[k].exists
             /\ subscriptions[k].status = "unsubscribed") =>
                /\ subscriptions'[k].status = "subscribed"
                /\ subscriptions'[k].subscriptionCount =
                       subscriptions[k].subscriptionCount + 1
                /\ subscriptions'[k].unsubscribeToken = subscriptions[k].unsubscribeToken
                /\ subscriptions'[k].unsubscribedAt = Null
                /\ subResult'.success /\ ~subResult'.alreadySubscribed]_vars

\* a record has been through two full cycles and is subscribed again
C3_Witness ==
    /\ op.name = "subscribeEmail"
    /\ ~subResult.alreadySubscribed
    /\ LET r == subscriptions[sha256Hash(toLowerCase(op.args[1]))]
       IN  /\ r.status = "subscribed"
           /\ r.subscriptionCount = 3
           /\ r.unsubscribedAt = Null
           /\ r.unsubscribeToken \in Tokens
           /\ r.lastSubscribedAt > r.subscribedAt

\* C4: unsubscribeEmail with a token that matches no record returns notFound
\* = true and changes no record; called with the token of an already
\* unsubscribed record it returns alreadyUnsubscribed = true (notFound =
\* false) and leaves unsubscribedAt, status and updatedAt of that record
\* unchanged.
C4_UnknownOrRepeatedToken ==
    [][\A tok \in Tokens \cup {UnknownToken} :
          op' = Op("unsubscribeEmail", <<tok>>) =>
            /\ HoldersOf(tok) = {} =>
                  /\ subResult'.notFound
                  /\ ~subResult'.alreadyUnsubscribed
                  /\ subscriptions' = subscriptions
            /\ \A k \in HoldersOf(tok) :
                  subscriptions[k].status = "unsubscribed" =>
                      /\ subResult'.alreadyUnsubscribed
                      /\ ~subResult'.notFound
                      /\ subscriptions'[k].unsubscribedAt = subscriptions[k].unsubscribedAt
                      /\ subscriptions'[k].status = "unsubscribed"
                      /\ subscriptions'[k].updatedAt = subscriptions[k].updatedAt]_vars

\* a second unsubscription, later than the first, reported the record as
\* already unsubscribed
C4_Witness ==
    /\ op.name = "unsubscribeEmail"
    /\ subResult.alreadyUnsubscribed
    /\ ~subResult.notFound
    /\ \E k \in HoldersOf(op.args[1]) :
          /\ subscriptions[k].status = "unsubscribed"
          /\ subscriptions[k].unsubscribedAt < now

\* C17: in every state reached by a sequence of atomic subscribeEmail and
\* unsubscribeEmail calls, each subscription record has subscriptionCount
\* >= 1, the count equals 1 plus the number of unsubscribed-to-subscribed
\* transitions the record has made, and no operation ever lowers it.
C17_CountTracksTransitions ==
    /\ [](\A k \in SubscriptionKeys :
            subscriptions[k].exists =>
                /\ subscriptions[k].subscriptionCount >= 1
                /\ subscriptions[k].subscriptionCount = 1 + resubscribed[k])
    /\ [][\A k \in SubscriptionKeys :
            subscriptions[k].exists =>
                subscriptions'[k].subscriptionCount
                    >= subscriptions[k].subscriptionCount]_vars

\* a record that was re-subscribed twice has been unsubscribed once more and
\* kept its count
C17_Witness ==
    /\ op.name = "unsubscribeEmail"
    /\ \E k \in HoldersOf(op.args[1]) :
          /\ subscriptions[k].status = "unsubscribed"
          /\ subscriptions[k].unsubscribedAt = now
          /\ subscriptions[k].subscriptionCount = 3
          /\ resubscribed[k] = 2

\* C18: subscribeEmail on an email with no record creates a record with
\* status subscribed, subscriptionCount 1, a newly generated unsubscribeToken
\* (one no record held) and unsubscribedAt null; subscribeEmail on an email
\* whose record is already subscribed reports alreadySubscribed = true and
\* writes nothing, leaving every field of the record unchanged.
C18_CreateOrNoOp ==
    [][\A email \in Emails :
          (op'.name = "subscribeEmail" /\ op'.args[1] = email) =>
            LET k == sha256Hash(toLowerCase(email)) IN
            /\ ~subscriptions[k].exists =>
                  /\ subscriptions'[k].exists
                  /\ subscriptions'[k].status = "subscribed"
                  /\ subscriptions'[k].subscriptionCount = 1
                  /\ subscriptions'[k].unsubscribedAt = Null
                  /\ subscriptions'[k].unsubscribeToken \in Tokens
                  /\ HoldersOf(subscriptions'[k].unsubscribeToken) = {}
                  /\ ~subResult'.alreadySubscribed
            /\ (subscriptions[k].exists /\ subscriptions[k].status = "subscribed") =>
                  /\ subResult'.alreadySubscribed
                  /\ subscriptions' = subscriptions]_vars

\* a later subscribeEmail of a subscribed address, from another client, was
\* reported as already subscribed and left the record of the first call
C18_Witness ==
    /\ op.name = "subscribeEmail"
    /\ subResult.alreadySubscribed
    /\ LET r == subscriptions[sha256Hash(toLowerCase(op.args[1]))]
       IN  /\ r.status = "subscribed"
           /\ r.subscriptionCount = 1
           /\ r.updatedAt < now
           /\ r.metadata # op.args[2]

\* C19: unsubscribeEmail(token) on a subscribed record finds the record by
\* its token only, sets status to unsubscribed and sets unsubscribedAt and
\* updatedAt, and leaves unsubscribeToken, subscriptionCount, subscribedAt,
\* createdAt, every other field and every other record in the store unchanged.
C19_UnsubscribeFrame ==
    [][\A tok \in Tokens, k \in SubscriptionKeys :
          (/\ op' = Op("unsubscribeEmail", <<tok>>)
           /\ HoldersOf(tok) = {k}
           /\ subscriptions[k].status = "subscribed") =>
              /\ subscriptions'[k] = [subscriptions[k] EXCEPT !.status = "unsubscribed",
                                                              !.unsubscribedAt = now,
                                                              !.updatedAt = now]
              /\ \A j \in SubscriptionKeys \ {k} : subscriptions'[j] = subscriptions[j]
              /\ subResult'.success
              /\ ~subResult'.notFound
              /\ ~subResult'.alreadyUnsubscribed]_vars

\* a record was unsubscribed by its token some time after it was created,
\* next to a record that stayed subscribed
C19_Witness ==
    /\ op.name = "unsubscribeEmail"
    /\ subResult.success
    /\ ~subResult.alreadyUnsubscribed
    /\ \E k \in HoldersOf(op.args[1]) :
          /\ subscriptions[k].status = "unsubscribed"
          /\ subscriptions[k].unsubscribedAt = now
          /\ subscriptions[k].createdAt < now
          /\ subscriptions[k].unsubscribeToken = op.args[1]
          /\ \E j \in SubscriptionKeys \ {k} :
                /\ subscriptions[j].exists
                /\ subscriptions[j].status = "subscribed"

---------------------------------------------------------------------------
(* Claims about the subscribe endpoint *)

\* the operation o is a request to the subscribe endpoint
IsPost(o) == o.name = "POST /api/subscribe"

\* the body of the request parsed and its honeypot field is not blank
NonBlankHoneypot(request) ==
    /\ request.bodyOk
    /\ request.honeypot # NullStr
    /\ \E i \in 1..Len(request.honeypot) : request.honeypot[i] \notin Whitespace

\* the body of the request parsed and its address is missing or invalid
MissingOrInvalidEmail(request) ==
    /\ request.bodyOk
    /\ IF request.email = NullStr \/ request.email = <<>> THEN TRUE
       ELSE ~validateEmail(normalizeEmail(request.email)).valid

\* the spam verdict on the request at time t
SpamVerdict(request, t) ==
    detectSpam(normalizeEmail(request.email), request.honeypot, request.timestamp,
               OrElse(request.headers.userAgent, <<>>), getClientIP(request.headers),
               t).isSpam

IsPrefix(s, full) == Len(s) <= Len(full) /\ SubSeq(full, 1, Len(s)) = s

LastOf(s) == s[Len(s)]

\* the step leaves every rate-limit counter as it was
C5_CountersKept ==
    ipLimits' = ipLimits /\ emailLimits' = emailLimits /\ globalLimit' = globalLimit

\* the step has none of the effects of the metrics stage: no metrics document
\* is created and no subscription is counted
C5_NothingCounted ==
    \A d \in Days :
        /\ metrics'[d].exists = metrics[d].exists
        /\ metrics[d].exists =>
              /\ metrics'[d].newSubscriptions = metrics[d].newSubscriptions
              /\ metrics'[d].netGrowth = metrics[d].netGrowth

C5_Step ==
    IsPost(op') =>
        LET request == op'.args[1]
        IN  /\ IsPrefix(stages', StageOrder)
            /\ NonBlankHoneypot(request) =>
                  /\ Len(stages') <= 1
                  /\ C5_CountersKept
                  /\ subscriptions' = subscriptions
                  /\ metrics' = metrics
            /\ (~NonBlankHoneypot(request) /\ MissingOrInvalidEmail(request)) =>
                  /\ Len(stages') <= 2
                  /\ C5_CountersKept
                  /\ abuseLog' = abuseLog
                  /\ subscriptions' = subscriptions
                  /\ metrics' = metrics
            /\ ~rlResult'.allowed =>
                  /\ Len(stages') <= 3
                  /\ abuseLog' = abuseLog
                  /\ subscriptions' = subscriptions
                  /\ C5_NothingCounted
            /\ (stages' # <<>> /\ LastOf(stages') = "spam") =>
                  /\ subscriptions' = subscriptions
                  /\ C5_NothingCounted
            /\ subscriptions' # subscriptions =>
                  /\ ~NonBlankHoneypot(request)
                  /\ ~MissingOrInvalidEmail(request)
                  /\ rlResult'.allowed
                  /\ rlResult'.reason = "none"
                  /\ ~SpamVerdict(request, now)

\* C5: the subscribe endpoint enters its stages in the order honeypot check,
\* email validation, rate limiting, spam scoring, subscription write, metrics
\* update, and a request rejected at one stage has none of the store effects
\* of a later stage: a request with a filled honeypot or without a valid
\* address changes no rate-limit counter, and a subscription record changes
\* only when validation, rate limiting and spam scoring have all passed
C5_StagesInOrder == [][C5_Step]_vars

\* a bot fills the honeypot after a visitor has subscribed from the same
\* address: the visitor's counters stand as they were
C5_Witness ==
    /\ IsPost(op)
    /\ NonBlankHoneypot(op.args[1])
    /\ ~MissingOrInvalidEmail(op.args[1])
    /\ stages = <<"honeypot">>
    /\ Len(abuseLog) = 1
    /\ ipLimits[IPKey(IpA)].exists
    /\ ipLimits[IPKey(IpA)].count = 1
    /\ subscriptions[SubscriptionKey(EmailA)].exists

\* the two responses are the same to the client: status, success flag,
\* message, and the fields present
C6_Same(r1, r2) ==
    /\ r1.status = r2.status
    /\ r1.body.success = r2.body.success
    /\ r1.body.message = r2.body.message
    /\ DOMAIN r1.body = DOMAIN r2.body
    /\ DOMAIN r1.headers = DOMAIN r2.headers

\* C6: the response to a request with a non-blank honeypot and the response
\* to a request that leads to a genuine new subscription are the same to the
\* client: same status, same success flag, same message, same set of fields
\* (here for a honeypot request followed by a genuine one, no store failing
\* during either)
C6_HoneypotIndistinguishable ==
    [][(/\ IsPost(op)
        /\ NonBlankHoneypot(op.args[1])
        /\ op.args[2] = "none"
        /\ IsPost(op')
        /\ ~NonBlankHoneypot(op'.args[1])
        /\ op'.args[2] = "none"
        /\ response'.status = 200
        /\ subResult'.success
        /\ ~subResult'.alreadySubscribed)
       => C6_Same(response, response')]_vars

\* C7: when the subscribe endpoint answers a request that passed the honeypot
\* check with success, the subscription record of the normalized address is
\* in the store with status subscribed
C7_SuccessAfterWrite ==
    (/\ IsPost(op)
     /\ op.args[1].bodyOk
     /\ ~NonBlankHoneypot(op.args[1])
     /\ response.status = 200
     /\ response.body.success)
    => LET k == SubscriptionKey(normalizeEmail(op.args[1].email))
       IN  /\ subscriptions[k].exists
           /\ subscriptions[k].status = "subscribed"

\* a new subscription answered with success
C7_Witness ==
    /\ IsPost(op)
    /\ ~NonBlankHoneypot(op.args[1])
    /\ response.status = 200
    /\ subResult.success
    /\ ~subResult.alreadySubscribed
    /\ stages = StageOrder
    /\ op.args[1].email = EmailPadded
    /\ subscriptions[SubscriptionKey(EmailA)].status = "subscribed"
    /\ subscriptions[SubscriptionKey(EmailA)].email = EmailA

\* C20: after any sequence of subscribe operations no two subscription
\* records hold emails that are equal after normalization (trim and
\* lower-case), and emails that differ only in letter case or surrounding
\* whitespace address the same record: a submission is refused as invalid
\* only if the trimmed, lower-cased address is invalid, it touches no record
\* but the one keyed by the hash of that address, and when it succeeds that
\* record holds that address.
C20_OneRecordPerAddress ==
    /\ [](\A j, k \in SubscriptionKeys :
            (/\ subscriptions[j].exists
             /\ subscriptions[k].exists
             /\ toLowerCase(trim(subscriptions[j].email))
                    = toLowerCase(trim(subscriptions[k].email)))
            => j = k)
    /\ [][(/\ IsPost(op')
           /\ op'.args[1].bodyOk
           /\ Truthy(op'.args[1].email)
           /\ ~NonBlankHoneypot(op'.args[1]))
          => LET address == toLowerCase(trim(op'.args[1].email))
                 k == sha256Hash(address)
             IN  /\ (/\ response'.status = 400
                      /\ response'.body.error.code = "INVALID_EMAIL")
                     => ~validateEmail(address).valid
                 /\ \A j \in SubscriptionKeys \ {k} : subscriptions'[j] = subscriptions[j]
                 /\ response'.status = 200
                     => /\ k \in SubscriptionKeys
                        /\ subscriptions'[k].exists
                        /\ subscriptions'[k].email = address
                        /\ subscriptions'[k].status = "subscribed"]_vars

\* the address typed in capitals on the homepage was found subscribed in the
\* record that the footer form created from the address typed between blanks
C20_Witness ==
    /\ IsPost(op)
    /\ op.args[1].email = EmailAUpper
    /\ response.status = 200
    /\ subResult.alreadySubscribed
    /\ subscriptions[sha256Hash(EmailA)].email = EmailA
    /\ subscriptions[sha256Hash(EmailA)].source = <<"f", "o", "o", "t", "e", "r">>
    /\ \A k \in SubscriptionKeys \ {sha256Hash(EmailA)} : ~subscriptions[k].exists

\* the collections a request that stopped in the stage has used there
C8_StoresUsed(stage) ==
    CASE stage = "honeypot" -> {"abuseLog"}
      [] stage = "validation" -> {}
      [] stage = "rateLimit" -> {"rateLimits", "metrics"}
      [] stage = "spam" -> {"abuseLog", "metrics"}
      [] stage = "subscribe" -> {"subscriptions"}
      [] stage = "metrics" -> {"metrics"}

\* an operation of a store failed while the last request was handled
C8_StoreFailed == stages # <<>> /\ op.args[2] \in C8_StoresUsed(LastOf(stages))

\* a failure the handler does not catch on its own: the body did not parse,
\* or a store other than the metrics store failed
C8_Uncaught == ~op.args[1].bodyOk \/ (C8_StoreFailed /\ op.args[2] # "metrics")

C8_IsError(r, status, code) ==
    /\ r.status = status
    /\ ~r.body.success
    /\ "error" \in DOMAIN r.body
    /\ r.body.error.code = code

C8_HasRetryAfter(r) ==
    IF "error" \in DOMAIN r.body THEN "retryAfter" \in DOMAIN r.body.error ELSE FALSE

\* the response the last request must have got, failed being whether a
\* failure that gives 500 happened
C8_Expected(failed) ==
    LET request == op.args[1]
        r == response
    IN  /\ r.status \in {200, 400, 429, 500}
        /\ IF failed
           THEN C8_IsError(r, 500, "SERVER_ERROR") /\ ~C8_HasRetryAfter(r)
           ELSE IF NonBlankHoneypot(request)
           THEN r.status = 200 /\ r.body.success /\ ~C8_HasRetryAfter(r)
           ELSE IF MissingOrInvalidEmail(request)
           THEN C8_IsError(r, 400, "INVALID_EMAIL") /\ ~C8_HasRetryAfter(r)
           ELSE IF ~rlResult.allowed
           THEN /\ C8_IsError(r, 429, "RATE_LIMIT_EXCEEDED")
                /\ C8_HasRetryAfter(r)
                /\ r.body.error.retryAfter = rlResult.retryAfter
                /\ DOMAIN r.headers = {"Retry-After", "X-RateLimit-Remaining"}
                /\ r.headers["Retry-After"] = toString(rlResult.retryAfter)
           ELSE IF request.bodyOk /\ SpamVerdict(request, now)
           THEN C8_IsError(r, 400, "INVALID_REQUEST") /\ ~C8_HasRetryAfter(r)
           ELSE r.status = 200 /\ r.body.success /\ ~C8_HasRetryAfter(r)

C21_LogFailureSwallowed ==
    (IsPost(op) /\ op.args[2] = "abuseLog") =>
        /\ NonBlankHoneypot(op.args[1]) =>
              /\ response.status = 200
              /\ response.body.success
        /\ stages = Stages(4) =>
              /\ response.status = 400
              /\ response.body.error.code = "INVALID_REQUEST"

---------------------------------------------------------------------------
(* Claims about the two endpoints *)

IsUnsubscribePost(o) == o.name = "POST /api/unsubscribe"

\* the stores before the step
C22_Stores ==
    Stores(ipLimits, emailLimits, globalLimit, subscriptions, metrics, abuseLog)

\* C22: a failure of the metrics store inside logSubscriptionMetrics never
\* reaches the caller: a request to the subscribe or the unsubscribe endpoint
\* during which the metrics store fails gets the response, and leaves the
\* subscription records, that the same request gets and leaves when the
\* metrics store works.
C22_MetricsFailureSwallowed ==
    [][/\ (IsPost(op') /\ op'.args[2] = "metrics") =>
            \E token \in RequestTokens(op'.args[1]) :
                LET o == POST(op'.args[1], C22_Stores, now, token, "none")
                IN  /\ response' = o.response
                    /\ subscriptions' = o.st.subscriptions
       /\ (IsUnsubscribePost(op') /\ op'.args[2] = "metrics") =>
            LET o == unsubscribePOST(op'.args[1], C22_Stores, now, "none")
            IN  /\ response' = o.response
                /\ subscriptions' = o.st.subscriptions]_vars

\* a record was unsubscribed and answered with success while the metrics
\* store failed, after it had been created while the metrics store failed
C22_Witness ==
    /\ IsUnsubscribePost(op)
    /\ op.args[2] = "metrics"
    /\ response.status = 200
    /\ subResult.success
    /\ ~subResult.alreadyUnsubscribed
    /\ subscriptions[SubscriptionKey(EmailA)].status = "unsubscribed"
    /\ ~metrics[Today(now)].exists

\* the value of a counter of a metrics document, 0 while there is none
C23_Counter(doc, field) == IF doc.exists THEN doc[field] ELSE 0

\* the metrics document of the day exists after the step and its counter
\* field is one more than before
C23_Counted(field) ==
    /\ metrics'[Today(now)].exists
    /\ metrics'[Today(now)][field] = C23_Counter(metrics[Today(now)], field) + 1

\* C23: the daily metrics record is created by the first event of the day
\* and incremented by every later one: after a new subscription, an
\* unsubscription, a rate-limited attempt or a spam attempt (no store
\* failing), the metrics record of the date exists and the counter of that
\* event type has grown by 1, also when the first event of the day is a
\* rate-limited or a spam attempt.
C23_EveryEventCounted ==
    [][/\ (IsPost(op') /\ op'.args[2] = "none") =>
            /\ stages' = StageOrder => C23_Counted("newSubscriptions")
            /\ response'.status = 429 => C23_Counted("rateLimitedAttempts")
            /\ (/\ response'.status = 400
                /\ response'.body.error.code = "INVALID_REQUEST")
               => C23_Counted("spamAttempts")
       /\ (/\ IsUnsubscribePost(op')
           /\ op'.args[2] = "none"
           /\ response'.status = 200
           /\ ~subResult'.alreadyUnsubscribed)
          => C23_Counted("unsubscriptions")]_vars

\* the token fields that are missing or malformed: none, the empty string, a
\* number, a text that is no UUID, a UUID of version 1
C24_Malformed ==
    {NoToken, StringToken(<<>>), NumberToken, StringToken(<<"n", "o", "t", "-", "a", "-", "t", "o", "k", "e", "n">>),
     StringToken(<<"c", "0", "f", "f", "e", "e", "0", "0", "-", "0", "0", "0", "0", "-", "1", "0", "0", "0", "-", "8", "0", "0", "0", "-", "0", "0", "0", "0", "0", "0", "0", "0", "0", "0", "0", "1">>)}

\* the keys of the records whose unsubscribeToken has the characters of the
\* token field
C24_Holders(token) ==
    {k \in SubscriptionKeys :
        IF subscriptions[k].exists
        THEN TokenText(subscriptions[k].unsubscribeToken) = token.text
        ELSE FALSE}

\* the step took some record from subscribed to unsubscribed
C24_Unsubscribed ==
    \E k \in SubscriptionKeys :
        IF subscriptions[k].exists
        THEN subscriptions[k].status = "subscribed"
             /\ subscriptions'[k].status = "unsubscribed"
        ELSE FALSE

\* C24: the unsubscribe endpoint answers 400 INVALID_TOKEN for a missing or
\* malformed token without calling unsubscribeEmail, 404 for a well-formed
\* token that matches no record, and 200 both for a successful unsubscribe
\* and for a record that was unsubscribed already; the unsubscription metric
\* is logged only when the record went from subscribed to unsubscribed (and
\* then once, unless the metrics store fails).
C24_UnsubscribeResponses ==
    [][(/\ IsUnsubscribePost(op')
        /\ op'.args[1].bodyOk
        /\ op'.args[2] # "subscriptions")
       => LET token == op'.args[1].token
          IN  /\ IF token \in C24_Malformed
                 THEN /\ C8_IsError(response', 400, "INVALID_TOKEN")
                      /\ subResult' = NoSubResult
                      /\ subscriptions' = subscriptions
                 ELSE IF C24_Holders(token) = {}
                 THEN /\ C8_IsError(response', 404, "INVALID_TOKEN")
                      /\ subscriptions' = subscriptions
                 ELSE /\ response'.status = 200
                      /\ response'.body.success
                      /\ \A k \in C24_Holders(token) :
                            subscriptions'[k].status = "unsubscribed"
              /\ metrics' # metrics => C24_Unsubscribed
              /\ (C24_Unsubscribed /\ op'.args[2] = "none")
                 => C23_Counted("unsubscriptions")]_vars

\* the token of a record that was unsubscribed before was sent again and
\* answered 200, and the day's metrics count the one unsubscription
C24_Witness ==
    /\ IsUnsubscribePost(op)
    /\ op.args[2] = "none"
    /\ response.status = 200
    /\ subResult.alreadyUnsubscribed
    /\ metrics[Today(now)].exists
    /\ metrics[Today(now)].unsubscriptions = 1
    /\ metrics[Today(now)].newSubscriptions = 1

---------------------------------------------------------------------------
(* Claims about the spam detector *)

\* detectSpam has returned
C25_Detected == op.name = "detectSpam" /\ verdict.called

\* the honeypot field holds a character that is not white space
C25_NonBlank(honeypot) ==
    /\ honeypot # NullStr
    /\ \E i \in 1..Len(honeypot) : honeypot[i] \notin Whitespace

\* C25: for every combination of email, timestamp, userAgent and ip,
\* detectSpam with a non-blank honeypot returns isSpam = true with
\* confidence 1.0.
C25_HoneypotDecides ==
    (C25_Detected /\ C25_NonBlank(op.args[2])) =>
        /\ verdict.result.isSpam
        /\ verdict.result.confidence = 10

\* detectSpam returned for a filled honeypot and data that is otherwise clean
C25_Witness ==
    /\ C25_Detected
    /\ op.args = <<EmailA, <<" ", "h", "t", "t", "p", ":", "/", "/", "s", "p", "a", "m", ".", "t", "e", "s", "t", " ">>, now - 2000, UaBrowser, IpA>>
    /\ verdict.result.isSpam
    /\ verdict.result.flags = <<"honeypot-filled">>

\* the results of the five sub-checks on the data detectSpam was called with
C26_Checks ==
    <<checkHoneypot(op.args[2]), checkSubmissionTiming(op.args[3], now),
      checkUserAgent(op.args[4]), checkIPReputation(op.args[5]),
      checkEmailPatterns(op.args[1])>>

\* the sub-checks that report isSpam with confidence >= 0.9
C26_Definitive(c) == {i \in 1..5 : c[i].isSpam /\ c[i].confidence >= 9}

\* the mean confidence of the five sub-checks exceeds 0.5 (confidences are
\* in tenths), or they raised three or more flags
C26_Aggregate(c) ==
    \/ c[1].confidence + c[2].confidence + c[3].confidence + c[4].confidence
        + c[5].confidence > 25
    \/ Len(c[1].flags) + Len(c[2].flags) + Len(c[3].flags) + Len(c[4].flags)
        + Len(c[5].flags) >= 3

\* the highest confidence among the sub-checks
C26_Highest(c) == CHOOSE m \in {c[i].confidence : i \in 1..5} :
                      \A i \in 1..5 : c[i].confidence <= m

\* C26: the verdict of detectSpam is isSpam = true exactly when some
\* sub-check reports isSpam with confidence >= 0.9 (then the result carries
\* the reason and confidence of such a sub-check), or the mean confidence of
\* the five sub-checks exceeds 0.5, or the sub-checks raised 3 or more flags
\* in total (then it carries the reason of a sub-check of the highest
\* confidence, or the generic fallback when none set one); in every other
\* case isSpam = false.
C26_Verdict ==
    C25_Detected =>
        LET c == C26_Checks
            r == verdict.result
        IN  /\ r.isSpam <=> (C26_Definitive(c) # {} \/ C26_Aggregate(c))
            /\ C26_Definitive(c) # {} =>
                  \E i \in C26_Definitive(c) :
                      r.reason = c[i].reason /\ r.confidence = c[i].confidence
            /\ (C26_Definitive(c) = {} /\ C26_Aggregate(c)) =>
                  /\ r.confidence = C26_Highest(c)
                  /\ IF C26_Highest(c) > 0
                     THEN \E i \in 1..5 : /\ c[i].confidence = C26_Highest(c)
                                          /\ r.reason = c[i].reason
                     ELSE r.reason = "Multiple spam indicators detected"

\* no sub-check was definitive and the flags of a late submission and of a
\* short, outdated user agent made the verdict
C26_Witness ==
    /\ C25_Detected
    /\ C26_Definitive(C26_Checks) = {}
    /\ verdict.result.isSpam
    /\ verdict.result.flags = <<"submission-delayed", "short-user-agent", "outdated-browser">>
    /\ verdict.result.confidence = 7
    /\ verdict.result.reason = "Suspicious User-Agent detected"

\* the flags in a list of flags
C27_FlagSet(flags) == {flags[j] : j \in 1..Len(flags)}

\* C27: for every input, the flags list of the detectSpam result contains
\* every flag raised by each of the five sub-checks, whatever the verdict is
\* and whichever sub-check decided it.
C27_AllFlagsAccumulated ==
    C25_Detected =>
        \A i \in 1..5 : C27_FlagSet(C26_Checks[i].flags) \subseteq C27_FlagSet(verdict.result.flags)

\* the address is in a private or loopback range
C28_Private(ip) ==
    \/ \E p \in {<<"1", "2", "7", ".">>, <<"1", "0", ".">>, <<"1", "9", "2", ".", "1", "6", "8", ".">>, <<"1", "7", "2", ".", "1", "6", ".">>, <<"f", "c", "0", "0", ":">>, <<"f", "d", "0", "0", ":">>} :
          IF Len(ip) >= Len(p) THEN SubSeq(ip, 1, Len(p)) = p ELSE FALSE
    \/ ip = <<":", ":", "1">>

\* C28: for an IP in a private or loopback range (prefix 127., 10.,
\* 192.168., 172.16., fc00:, fd00:, or ::1) the IP-reputation sub-check
\* reports the private-ip flag with confidence 0.5, and, when no earlier
\* sub-check ends the aggregation, that flag and confidence enter the
\* detectSpam aggregate: the flag is in the result's flags and the result's
\* confidence, the highest of the sub-checks, is at least 0.5.
C28_PrivateIPFlagged ==
    (C25_Detected /\ C28_Private(op.args[5])) =>
        /\ checkIPReputation(op.args[5]).flags = <<"private-ip">>
        /\ checkIPReputation(op.args[5]).confidence = 5
        /\ C26_Definitive(C26_Checks) = {} =>
              /\ "private-ip" \in C27_FlagSet(verdict.result.flags)
              /\ verdict.result.confidence >= 5

\* C29: the timing sub-check, with elapsed = server time - client timestamp:
\* elapsed < 2000 ms gives the flag submission-too-fast at confidence 0.9 and
\* makes detectSpam return isSpam = true whatever the other fields are;
\* 2000 ms <= elapsed <= 3600000 ms and a missing timestamp give no signal
\* (confidence 0, no flag); elapsed > 3600000 ms gives submission-delayed at
\* confidence 0.6.
C29_TimingBands ==
    C25_Detected =>
        LET r == checkSubmissionTiming(op.args[3], now)
            elapsed == now - op.args[3]
        IN  IF op.args[3] = Null
            THEN r.confidence = 0 /\ r.flags = <<>>
            ELSE IF elapsed < 2000
            THEN /\ r.flags = <<"submission-too-fast">>
                 /\ r.confidence = 9
                 /\ verdict.result.isSpam
            ELSE IF elapsed <= 3600000
            THEN r.confidence = 0 /\ r.flags = <<>>
            ELSE r.flags = <<"submission-delayed">> /\ r.confidence = 6

---------------------------------------------------------------------------
(* Claims about the email validator *)

\* validateEmail has returned
C30_Validated == op.name = "validateEmail" /\ verdict.called

\* the results of the five checks, in their fixed order, on the trimmed,
\* lower-cased address
C30_Checks(email) ==
    LET e == toLowerCase(trim(email))
    IN  <<validateEmailFormat(e), checkMaliciousContent(e), checkSuspiciousPatterns(e),
          checkDisposableEmail(e), checkCommonTypos(e)>>

\* the severity each check reports: format low, malicious content high,
\* suspicious pattern medium, disposable domain medium, typo domain low
C30_Severity == <<"low", "high", "medium", "medium", "low">>

\* C30: validateEmail returns exactly one reason and severity, the one of
\* the first failing check in the fixed order format (low), malicious
\* content (high), suspicious pattern (medium), disposable domain (medium),
\* typo domain (low): an email failing both the malicious-content and the
\* suspicious-pattern check is reported as high-severity malicious content,
\* and an email failing format and any later check is reported with the
\* low-severity format reason; an email failing no check is valid.
C30_FirstFailureWins ==
    C30_Validated =>
        LET c == C30_Checks(op.args[1])
            failing == {i \in 1..5 : ~c[i].valid}
            r == verdict.result
        IN  IF failing = {} THEN r.valid
            ELSE \E i \in failing :
                    /\ \A j \in failing : i <= j
                    /\ ~r.valid
                    /\ r.reason = c[i].reason
                    /\ r.severity = C30_Severity[i]

\* an address with a quote in an example domain fails the malicious-content
\* and the suspicious-pattern check and is reported as malicious content
C30_Witness ==
    /\ C30_Validated
    /\ op.args[1] = <<"o", "'", "n", "e", "i", "l", "@", "e", "x", "a", "m", "p", "l", "e", ".", "c", "o", "m">>
    /\ ~checkMaliciousContent(op.args[1]).valid
    /\ ~checkSuspiciousPatterns(op.args[1]).valid
    /\ verdict.result.severity = "high"
    /\ verdict.result.reason = "Email contains potentially malicious content"

\* the two addresses of the validator's examples
TestAtExample == <<"t", "e", "s", "t", "@", "e", "x", "a", "m", "p", "l", "e", ".", "c", "o", "m">>
JaneAtOutlook == <<"j", "a", "n", "e", ".", "d", "o", "e", "@", "o", "u", "t", "l", "o", "o", "k", ".", "c", "o", "m">>

\* C31: validateEmail rejects test@example.com as a suspicious pattern with
\* medium severity, and the reason it returns is that of the test@ rule,
\* which stands before the rule for the reserved example domains in the list
\* of patterns; it accepts jane.doe@outlook.com as valid with no reason.
C31_Examples ==
    C30_Validated =>
        /\ op.args[1] = TestAtExample =>
            /\ ~verdict.result.valid
            /\ verdict.result = checkSuspiciousPatterns(TestAtExample)
            /\ verdict.result.severity = "medium"
            /\ verdict.result.reason = "Test email addresses are not allowed"
        /\ op.args[1] = JaneAtOutlook =>
            /\ verdict.result.valid
            /\ verdict.result.reason = ""

\* validateEmail has rejected test@example.com
C31_Witness ==
    /\ C30_Validated
    /\ op.args[1] = TestAtExample
    /\ ~verdict.result.valid
    /\ verdict.result.severity = "medium"

\* C31 as stated: test@example.com is rejected because of its reserved
\* domain, i.e. with the reason of the rule for the example domains (medium
\* severity), and jane.doe@outlook.com is accepted as valid with no reason.
C31_AsStated ==
    C30_Validated =>
        /\ op.args[1] = TestAtExample =>
            /\ ~verdict.result.valid
            /\ verdict.result.severity = "medium"
            /\ verdict.result.reason = "Example domain emails are not allowed"
        /\ op.args[1] = JaneAtOutlook =>
            /\ verdict.result.valid
            /\ verdict.result.reason = ""

\* normalizeEmail has returned
C32_Normalized == op.name = "normalizeEmail" /\ verdict.called

\* C32: normalizeEmail is idempotent, normalizeEmail(normalizeEmail(e)) =
\* normalizeEmail(e) for every string e, and validateEmail gives the same
\* result for e and for normalizeEmail(e), since every check operates on the
\* trimmed, lower-cased email.
C32_NormalizeIdempotent ==
    /\ C32_Normalized => normalizeEmail(verdict.result) = verdict.result
    /\ C30_Validated => verdict.result = validateEmailChecks(normalizeEmail(op.args[1]))

\* normalizeEmail has returned an address that differs from the one typed, in
\* blanks and in letter case
C32_Witness ==
    /\ C32_Normalized
    /\ op.args[1] = EmailPadded
    /\ verdict.result = <<"j", "o", "@", "g", "d", "g", ".", "d", "e", "v">>
    /\ verdict.result # toLowerCase(op.args[1])
    /\ verdict.result # trim(op.args[1])

---------------------------------------------------------------------------
(* Further claims about the rate limiter *)

\* C33: a request that checkAllRateLimits rejects because the IP scope is
\* blocked or over its limit leaves the per-email counter and the global
\* counter unchanged: a rejected request consumes no quota in the other
\* scopes.
C33_RejectedConsumesNothing ==
    [][\A ip \in IPs, email \in Emails :
          (/\ op' = Op("checkAllRateLimits", <<ip, email>>)
           /\ ~checkIPRateLimit(ipLimits[IPKey(ip)], now).res.allowed) =>
              /\ ~rlResult'.allowed
              /\ emailLimits' = emailLimits
              /\ globalLimit' = globalLimit]_vars

\* one check of a keyed counter that holds a block: while the block is
\* active the check is rejected and the document stays as it was; from the
\* stored blockedUntil on the check is evaluated and written as an attempt,
\* and if it is rejected, then by a block it persists itself
C34_Check(pre, post, res, t) ==
    (pre.exists /\ pre.blockedUntil # Null) =>
        IF pre.blockedUntil > t
        THEN /\ ~res.allowed
             /\ post.count = pre.count
             /\ post.windowStart = pre.windowStart
             /\ post.lastAttempt = pre.lastAttempt
             /\ post.totalAttempts = pre.totalAttempts
             /\ post.blockedUntil = pre.blockedUntil
        ELSE /\ post.lastAttempt = t
             /\ post.totalAttempts = pre.totalAttempts + 1
             /\ res.allowed \/ post.blockedUntil = t + res.retryAfter * 1000

C35_Blocks(doc, t) == IF doc.exists THEN IsBlocked(doc, t) ELSE FALSE

\* C35: under any interleaving of rate-limit checks for one key, once a
\* block has been persisted for that key every check of it that begins
\* before the stored blockedUntil is rejected: a check that reads the block
\* is rejected, and a concurrent check that read the counter before the
\* block was written cannot overwrite the record and erase the block.
C35_BlockSurvivesRace ==
    [][/\ \A p \in Requests :
            (C14_Completes(p) /\ C35_Blocks(reads[p].doc, reads[p].at)) =>
                ~rlResult'.allowed
       /\ \A k \in IPKeys :
            C35_Blocks(ipLimits[k], now) =>
                /\ C35_Blocks(ipLimits'[k], now)
                /\ ipLimits'[k].blockedUntil >= ipLimits[k].blockedUntil
       /\ \A k \in EmailKeys :
            C35_Blocks(emailLimits[k], now) =>
                /\ C35_Blocks(emailLimits'[k], now)
                /\ emailLimits'[k].blockedUntil >= emailLimits[k].blockedUntil]_vars

---------------------------------------------------------------------------
(* Concurrent calls of the subscription manager *)

\* updateDoc(ref, fields): the stored document with the fields that the
\* re-subscription sets (emailSubscription.ts:49-61) taken from data
updateResubscribed(stored, data) ==
    [stored EXCEPT !.status = data.status, !.lastSubscribedAt = data.lastSubscribedAt,
                   !.unsubscribedAt = data.unsubscribedAt,
                   !.subscriptionCount = data.subscriptionCount,
                   !.updatedAt = data.updatedAt, !.metadata = data.metadata]

\* updateDoc(ref, fields): the stored document with the fields that the
\* unsubscription sets (emailSubscription.ts:153-157) taken from data
updateUnsubscribed(stored, data) ==
    [stored EXCEPT !.status = data.status, !.unsubscribedAt = data.unsubscribedAt,
                   !.updatedAt = data.updatedAt]

\* what subscribeEmail leaves under its key: updateDoc merges into the stored
\* record, setDoc replaces whatever is stored (lines 49, 102)
writeSubscription(stored, snapshot, data) ==
    IF snapshot.exists THEN updateResubscribed(stored, data) ELSE data

\* the first half of subscribeEmail by request p: getDoc
BeginSubscribe ==
    \E p \in Requests, email \in {EmailA} :
        /\ subscriptions[SubscriptionKey(email)].exists =>
              \/ subscriptions[SubscriptionKey(email)].status = "subscribed"
              \/ subscriptions[SubscriptionKey(email)].subscriptionCount
                    < MaxSubscriptionCount - 1
        /\ BeginCheck(p, "subscribe", email, subscriptions[SubscriptionKey(email)])

\* the second half of subscribeEmail by request p: the decision on the record
\* it read, Timestamp.now(), and updateDoc or setDoc unless it returned early
FinishSubscribe ==
    \E p \in Requests :
        /\ reads[p].reading
        /\ reads[p].scope = "subscribe"
        /\ \E token \in (IF reads[p].doc.exists THEN {UnknownToken}
                         ELSE FreshTokens(subscriptions)) :
            \E o \in {subscribeEmail(reads[p].doc, reads[p].id, MetadataA, "homepage", now,
                                     token)} :
              /\ subscriptions' =
                    IF o.wrote
                    THEN [subscriptions EXCEPT ![SubscriptionKey(reads[p].id)] =
                              writeSubscription(@, reads[p].doc, o.doc)]
                    ELSE subscriptions
              /\ subResult' = o.res
        /\ CountResubscriptions
        /\ reads' = [reads EXCEPT ![p] = NoRead]
        /\ op' = Op("subscribeEmail", <<reads[p].id, MetadataA, "homepage">>)
        /\ UNCHANGED <<now, ticks, rlVars, metrics, abuseLog, response, stages, grants,
                       verdict>>

\* the first half of unsubscribeEmail by request p: getDocs(query), with a
\* token that was issued
BeginUnsubscribe ==
    \E p \in Requests, token \in Tokens :
        /\ TokenMatches(subscriptions, token) # {}
        /\ BeginCheck(p, "unsubscribe", token, subscriptions)

\* the second half of unsubscribeEmail by request p: the decision on the
\* record the query returned, Timestamp.now(), and updateDoc unless it
\* returned early
FinishUnsubscribe ==
    \E p \in Requests :
        /\ reads[p].reading
        /\ reads[p].scope = "unsubscribe"
        /\ \E o \in {unsubscribeEmail(reads[p].doc, reads[p].id, now)} :
              /\ subscriptions' =
                    [k \in SubscriptionKeys |->
                        IF o.subs[k] # reads[p].doc[k]
                        THEN updateUnsubscribed(subscriptions[k], o.subs[k])
                        ELSE subscriptions[k]]
              /\ subResult' = o.res
        /\ CountResubscriptions
        /\ reads' = [reads EXCEPT ![p] = NoRead]
        /\ op' = Op("unsubscribeEmail", <<reads[p].id>>)
        /\ UNCHANGED <<now, ticks, rlVars, metrics, abuseLog, response, stages, grants,
                       verdict>>

\* the calls of two concurrent requests for one address, interleaved at the
\* awaits, over two hours
NextSubRace ==
    LongTick \/ BeginSubscribe \/ FinishSubscribe \/ BeginUnsubscribe \/ FinishUnsubscribe
SpecSubRace == InitIdle /\ [][NextSubRace]_vars

---------------------------------------------------------------------------
(* Further claims about the subscription manager *)

\* C36: under any interleaving of subscribeEmail and unsubscribeEmail
\* requests for the same email, including two subscribe requests that both
\* read the record as absent before either writes, the unsubscribeToken,
\* createdAt and subscriptionCount of the record are never replaced by a later
\* create: a token once stored stays the valid unsubscribe credential and the
\* count never decreases.
C36_RecordNeverReplaced ==
    [][\A k \in SubscriptionKeys :
          subscriptions[k].exists =>
              /\ subscriptions'[k].exists
              /\ subscriptions'[k].unsubscribeToken = subscriptions[k].unsubscribeToken
              /\ subscriptions'[k].createdAt = subscriptions[k].createdAt
              /\ subscriptions'[k].subscriptionCount
                    >= subscriptions[k].subscriptionCount]_vars

---------------------------------------------------------------------------
(* Administrative blocks of an address as typed *)

\* manualBlock('email', x, d) with the address in lower case or in capitals
BlockEmailAsTyped ==
    \E email \in {EmailA, EmailAUpper}, h \in HalfHours :
        ManualBlockEmail(email, h) /\ UNCHANGED auxVars

\* checkEmailRateLimit(y) with the address in lower case or in capitals
AttemptEmailAsTyped ==
    \E email \in {EmailA, EmailAUpper} : CheckEmail(email) /\ UNCHANGED auxVars

NextBlock == LongTick \/ BlockEmailAsTyped \/ AttemptEmailAsTyped
SpecBlock == InitIdle /\ [][NextBlock]_vars

\* C37: manualBlock('email', x, d) blocks the same counter that
\* checkEmailRateLimit reads: after it, checkEmailRateLimit(y) is rejected
\* until the expiry for every y equal to x up to letter case, the key under
\* which subscribe requests for that address are limited.
C37_ManualBlockSameCounter ==
    [][\A x \in {EmailA, EmailAUpper}, y \in {EmailA, EmailAUpper} :
          (/\ toLowerCase(x) = toLowerCase(y)
           /\ op' = Op("checkEmailRateLimit", <<y>>)
           /\ C16_ManuallyBlocked(emailLimits[ManualKey(x)])
           /\ emailLimits[ManualKey(x)].blockedUntil > now) =>
              ~rlResult'.allowed]_vars

---------------------------------------------------------------------------
(* Concurrent updates of the daily metrics *)

\* the fields logSubscriptionMetrics passes to updateDoc for an event of the
\* given type (emailSubscription.ts:206-218), merged into the stored document
updateMetrics(stored, type, data) ==
    IF type = "subscription"
    THEN [stored EXCEPT !.updatedAt = data.updatedAt,
                        !.newSubscriptions = data.newSubscriptions,
                        !.netGrowth = data.netGrowth]
    ELSE [stored EXCEPT !.updatedAt = data.updatedAt,
                        !.unsubscriptions = data.unsubscriptions,
                        !.netGrowth = data.netGrowth]

\* request p is in logSubscriptionMetrics(type), past its getDoc
BeginLog(p, type) ==
    reads' = [reads EXCEPT ![p] = [reading |-> TRUE, scope |-> type, id |-> Today(now),
                                   doc |-> metrics[Today(now)], at |-> now]]

\* a subscribe request p up to the getDoc of logSubscriptionMetrics:
\* subscribeEmail, and the metrics only if (!result.alreadySubscribed)
SubscribeThenLog ==
    \E p \in Requests, email \in {EmailA, EmailB} :
        /\ ~reads[p].reading
        /\ subscriptions[SubscriptionKey(email)].exists =>
              \/ subscriptions[SubscriptionKey(email)].status = "subscribed"
              \/ subscriptions[SubscriptionKey(email)].subscriptionCount
                    < MaxSubscriptionCount - 1
        /\ \E token \in GeneratedTokens(subscriptions, SubscriptionKey(email)) :
            \E o \in {subscribeEmail(subscriptions[SubscriptionKey(email)], email, MetadataA,
                                     "homepage", now, token)} :
              /\ subscriptions' = [subscriptions EXCEPT ![SubscriptionKey(email)] = o.doc]
              /\ subResult' = o.res
              /\ IF o.res.alreadySubscribed THEN UNCHANGED reads
                 ELSE BeginLog(p, "subscription")
        /\ CountResubscriptions
        /\ op' = Op("subscribeEmail", <<email, MetadataA, "homepage">>)
        /\ UNCHANGED <<now, ticks, rlVars, metrics, abuseLog, response, stages, grants,
                       verdict>>

\* an unsubscribe request p up to the getDoc of logSubscriptionMetrics:
\* unsubscribeEmail, and the metrics only if the record was found and
\* (!result.alreadyUnsubscribed)
UnsubscribeThenLog ==
    \E p \in Requests, token \in Tokens :
        /\ ~reads[p].reading
        /\ \E o \in {unsubscribeEmail(subscriptions, token, now)} :
              /\ subscriptions' = o.subs
              /\ subResult' = o.res
              /\ IF o.res.notFound \/ o.res.alreadyUnsubscribed THEN UNCHANGED reads
                 ELSE BeginLog(p, "unsubscription")
        /\ CountResubscriptions
        /\ op' = Op("unsubscribeEmail", <<token>>)
        /\ UNCHANGED <<now, ticks, rlVars, metrics, abuseLog, response, stages, grants,
                       verdict>>

\* the rest of logSubscriptionMetrics by request p: the counters computed
\* from the document it read, then updateDoc, or setDoc if it read none
FinishLog ==
    \E p \in Requests :
        /\ reads[p].reading
        /\ reads[p].scope \in {"subscription", "unsubscription"}
        /\ \E data \in {logSubscriptionMetrics(reads[p].doc, reads[p].scope, now)} :
              metrics' = [metrics EXCEPT ![reads[p].id] =
                              IF reads[p].doc.exists
                              THEN updateMetrics(@, reads[p].scope, data)
                              ELSE data]
        /\ reads' = [reads EXCEPT ![p] = NoRead]
        /\ op' = Op("logSubscriptionMetrics", <<reads[p].scope>>)
        /\ UNCHANGED <<now, ticks, rlVars, subscriptions, abuseLog, subResult, response,
                       stages, grants, resubscribed, verdict>>

\* two concurrent requests of one day, interleaved at the getDoc of
\* logSubscriptionMetrics
NextMetricsRace == SubscribeThenLog \/ UnsubscribeThenLog \/ FinishLog
SpecMetricsRace == InitIdle /\ [][NextMetricsRace]_vars

---------------------------------------------------------------------------
(* Further claims about the metrics *)

\* the status of some subscription record changes in this step, or a record
\* is created
C38_Transition ==
    \E k \in SubscriptionKeys :
        IF subscriptions[k].exists
        THEN subscriptions'[k].status # subscriptions[k].status
        ELSE subscriptions'[k].exists

\* logSubscriptionMetrics is entered in this step
C38_Logged == \E p \in Requests : ~reads[p].reading /\ reads'[p].reading

\* in every daily metrics record netGrowth = newSubscriptions - unsubscriptions
C38_NetGrowth ==
    \A d \in Days :
        metrics[d].exists =>
            metrics[d].netGrowth = metrics[d].newSubscriptions - metrics[d].unsubscriptions

\* logSubscriptionMetrics is entered exactly by the requests that changed the
\* state of a subscription
C38_LoggedOnTransition ==
    [][op'.name \in {"subscribeEmail", "unsubscribeEmail"} =>
            (C38_Logged <=> C38_Transition)]_vars

\* C38: in every state of a daily metrics record reached through
\* logSubscriptionMetrics, including interleaved subscription and
\* unsubscription updates of the same day, netGrowth = newSubscriptions -
\* unsubscriptions, and logSubscriptionMetrics is called once for each real
\* state transition only (never for an already-subscribed or
\* already-unsubscribed outcome).
C38_NetGrowthInvariant == []C38_NetGrowth /\ C38_LoggedOnTransition

---------------------------------------------------------------------------
(* Further claims about the spam detector *)

\* the sum of the confidences of the five sub-checks, in tenths
C39_Sum(c) ==
    c[1].confidence + c[2].confidence + c[3].confidence + c[4].confidence + c[5].confidence

\* the number of flags the five sub-checks raised
C39_Flags(c) ==
    Len(c[1].flags) + Len(c[2].flags) + Len(c[3].flags) + Len(c[4].flags) + Len(c[5].flags)

\* C39: when no sub-check reports a confidence of 0.9 or more, the mean
\* confidence of the five sub-checks can never exceed 0.5 (the largest
\* reachable sum is 0 + 0.6 + 0.8 + 0 + 0.7), so in that case detectSpam
\* returns isSpam = true if and only if the sub-checks raised at least 3 flags
\* in total.
C39_FlagsDecide ==
    (C25_Detected /\ \A i \in 1..5 : C26_Checks[i].confidence < 9) =>
        /\ C26_Checks[1].confidence = 0
        /\ C26_Checks[2].confidence <= 6
        /\ C26_Checks[3].confidence <= 8
        /\ C26_Checks[4].confidence = 0
        /\ C26_Checks[5].confidence <= 7
        /\ C39_Sum(C26_Checks) <= 21
        /\ verdict.result.isSpam <=> C39_Flags(C26_Checks) >= 3

\* a late submission without a user agent from an address of consonants: the
\* confidences are 0.6, 0.8 and 0.7, the largest sum, and the three flags
\* make the verdict
C39_Witness ==
    /\ C25_Detected
    /\ \A i \in 1..5 : C26_Checks[i].confidence < 9
    /\ C39_Sum(C26_Checks) = 21
    /\ C39_Flags(C26_Checks) = 3
    /\ verdict.result.isSpam
    /\ verdict.result.confidence = 8

\* detectSpam has returned for the email aaaaaa@x.com sent with the user
\* agent curl/7.68.0, and neither the honeypot nor the timing decided
C40_Scenario ==
    /\ C25_Detected
    /\ op.args[1] = <<"a", "a", "a", "a", "a", "a", "@", "x", ".", "c", "o", "m">>
    /\ op.args[4] = <<"c", "u", "r", "l", "/", "7", ".", "6", "8", ".", "0">>
    /\ C26_Checks[1].confidence < 9
    /\ C26_Checks[2].confidence < 9

\* C40: for the email aaaaaa@x.com with user agent curl/7.68.0, the
\* email-shape sub-check raises no flag and reports confidence 0 (the local
\* part holds no consonant), the user-agent sub-check reports confidence 0.9,
\* and detectSpam returns isSpam = true through the >= 0.9 short-circuit on
\* the user-agent check, with that check's reason and confidence and the
\* flags raised up to it.
C40_CurlDecides ==
    C40_Scenario =>
        /\ checkEmailPatterns(op.args[1]) = NotSpam
        /\ checkUserAgent(op.args[4]).isSpam
        /\ checkUserAgent(op.args[4]).confidence = 9
        /\ verdict.result.isSpam
        /\ verdict.result.confidence = 9
        /\ verdict.result.reason = "Suspicious User-Agent detected"
        /\ verdict.result.flags = C26_Checks[2].flags \o checkUserAgent(op.args[4]).flags

\* detectSpam has returned for the scenario with no timestamp and an empty
\* honeypot
C40_Witness ==
    /\ C40_Scenario
    /\ op.args[2] = NullStr
    /\ op.args[3] = Null
    /\ verdict.result.isSpam
    /\ verdict.result.flags = <<"bot-user-agent", "short-user-agent">>

\* C40 as stated: for the email aaaaaa@x.com with user agent curl/7.68.0, the
\* email-shape sub-check raises the random-string (consonant-streak) flag
\* with confidence >= 0.7, the user-agent sub-check reports confidence 0.9,
\* and detectSpam returns isSpam = true through the >= 0.9 short-circuit on
\* the user-agent check.
C40_AsStated ==
    C40_Scenario =>
        /\ \E i \in 1..Len(checkEmailPatterns(op.args[1]).flags) :
                checkEmailPatterns(op.args[1]).flags[i] = "random-string"
        /\ checkEmailPatterns(op.args[1]).confidence >= 7
        /\ checkUserAgent(op.args[4]).confidence = 9
        /\ verdict.result.isSpam
        /\ verdict.result.confidence = 9
        /\ verdict.result.reason = "Suspicious User-Agent detected"

=============================================================================
